---- MODULE Spec2Model ----
(***************************************************************************)
(* Model of the JIIT portal checker (src/src/jiit_checker.py): attendance  *)
(* aggregation, the marks TTL cache, semester-name derivation and the      *)
(* marks fetch operations with their retry loops.                          *)
(*                                                                         *)
(* Conventions.  A Python value that may be missing / None is a set with   *)
(* at most one element ({} is missing/None, {v} is the value v).  A Python *)
(* dict is a function whose DOMAIN is its key set.  A float percentage is  *)
(* the exact fraction <<numerator, denominator>> in lowest terms.  A text  *)
(* is a sequence of one-character strings.                                 *)
(***************************************************************************)
EXTENDS Integers, Sequences, FiniteSets, TLC

(***************************************************************************)
(* Bounds of the model.                                                    *)
(***************************************************************************)
MaxRecords == 2
MaxSemesters == 2
MaxOps == 2
MaxTime == 300
TickStep == 150

VARIABLES
    att_pc,             \* position inside fetch_attendance
    att_records,        \* attendance_response['studentattendancelist']
    basic_subjects,     \* dict built by the first loop
    basic_order,        \* insertion order of basic_subjects
    att_idx,            \* index of the next subject of the second loop
    enhanced_subjects,  \* dict built by the second loop
    total_classes,
    total_attended,
    att_detail,         \* outcome of the last detailed call (history)
    att_ret             \* what fetch_attendance gave its caller

att_vars == <<att_pc, att_records, basic_subjects, basic_order, att_idx,
              enhanced_subjects, total_classes, total_attended, att_detail,
              att_ret>>

VARIABLES
    now,                  \* time.time()
    session,              \* "none": no session manager; "in" / "out": logged in or not
    marks_cache,
    marks_cache_expiry,
    marks_data,
    marks_semesters,
    marks_semester_data,
    marks_loading,
    th,                   \* per thread: position, locals and result of its call
    ops,                  \* calls started so far
    cache_set_at,         \* history: when _set_cache last wrote a key
    cache_stored,         \* history: the value _set_cache was given for a key
    portal_semesters      \* the semester list the portal serves

marks_vars == <<now, session, marks_cache, marks_cache_expiry, marks_data,
                marks_semesters, marks_semester_data, marks_loading, th, ops,
                cache_set_at, cache_stored, portal_semesters>>

\* everything of marks_vars but the session
marks_state == <<now, marks_cache, marks_cache_expiry, marks_data,
                 marks_semesters, marks_semester_data, marks_loading, th, ops,
                 cache_set_at, cache_stored, portal_semesters>>

VARIABLES
    cc_pc,                 \* position inside check_for_changes
    cc_current,            \* its local current_data
    cc_ret,                \* what check_for_changes gave its caller
    last_attendance_data,
    last_marks_data,
    last_notices,
    cc_prev,               \* history: what was stored when the call began
    cycles,                \* calls of check_for_changes begun so far
    attendance_threshold   \* ATTENDANCE_THRESHOLD of the environment

poll_vars == <<cc_pc, cc_current, cc_ret, last_attendance_data, last_marks_data,
               last_notices, cc_prev, cycles, attendance_threshold>>

VARIABLES
    drv_pc,                \* position inside periodic_check
    running,               \* the global flag of main.py
    consecutive_failures,
    check_interval,        \* seconds, read at the top of a cycle
    env_interval,          \* CHECK_INTERVAL_MINUTES * 60 of the environment
    sleep_start_time,
    last_sleep,            \* history: length of the last time.sleep call
    failed_streak,         \* history: failed cycles in a row since the last
                           \* login-check success or failure notification
    notified,              \* history: the failure notification of the last cycle
    drv_cycles,            \* cycles begun so far
    alert_cycles,          \* history: the cycles in which a low-attendance alert was sent
    failed_cycles          \* history: failed cycles in a row since the last
                           \* cycle that succeeded or failure notification

drv_vars == <<drv_pc, running, consecutive_failures, check_interval, env_interval,
              sleep_start_time, last_sleep, failed_streak, notified, drv_cycles,
              alert_cycles,
              failed_cycles>>

VARIABLES
    selected_marks_sem,    \* the label select_marks_semester chose
    sel_pc,                \* position of the command that selects and reads
    cmd_marks              \* what get_current_marks gave that command

cmd_vars == <<selected_marks_sem, sel_pc, cmd_marks>>

VARIABLES
    pm_line,               \* the text _parse_marks_line was last given
    pm_ret,                \* what it returned
    dn_sem,                \* the semester object a display name is derived from
    dn_list,               \* the name fetch_marks_semesters derived for it
    dn_resolve             \* the name fetch_marks_for_semester derived for it
fn_vars == <<pm_line, pm_ret, dn_sem, dn_list, dn_resolve>>

VARIABLES
    session_manager,       \* self.session_manager: 0 for None, or the number of a manager
    managers,              \* the logged_in flag of every SessionManager made so far
    lg,                    \* per thread: where its session steps stand
    cl_pc                  \* position of cleanup()
ses_vars == <<session_manager, managers, lg, cl_pc>>

VARIABLES
    iv_args,               \* history: the arguments of the last /interval command
    iv_before              \* history: the interval before that command
iv_vars == <<iv_args, iv_before>>

vars == <<att_vars, marks_vars, poll_vars, drv_vars, cmd_vars, fn_vars, ses_vars, iv_vars>>

(***************************************************************************)
(* Generic helpers.                                                        *)
(***************************************************************************)
None == {}

Some(v) == {v}

\* dict.get(key, default) followed by "or default": missing and None read
\* as the default
GetOr(opt, default) == IF opt = {} THEN default ELSE CHOOSE v \in opt : TRUE

Value(opt) == CHOOSE v \in opt : TRUE

EmptyDict == [k \in {} |-> {}]

\* d[k] = v on a Python dict
DictPut(d, k, v) == [x \in (DOMAIN d) \cup {k} |-> IF x = k THEN v ELSE d[x]]

RECURSIVE Gcd(_, _)
Gcd(a, b) == IF b = 0 THEN a ELSE Gcd(b, a % b)

\* the float n / d as an exact fraction in lowest terms (d > 0)
Frac(n, d) == LET g == Gcd(n, d) IN
              IF g = 0 THEN <<0, 1>> ELSE <<n \div g, d \div g>>

\* present / total * 100
Percent(present, total) == Frac(present * 100, total)

Zero == <<0, 1>>

\* x > 0 on a fraction
FracPositive(x) == x[1] > 0

(***************************************************************************)
(* Attendance: upstream records.                                           *)
(***************************************************************************)
UnknownSubject == "Unknown Subject"

\* the count profiles a record can carry: lecture / tutorial / practical
\* total and present counts, the percentage of each component and the
\* combined LTP percentage
CountProfiles ==
    { [Ltotalclass |-> None, Ltotalpres |-> None, Ttotalclass |-> None,
       Ttotalpres |-> None, Ptotalclass |-> None, Ptotalpres |-> None,
       Lpercentage |-> None, Tpercentage |-> None, Ppercentage |-> None,
       LTpercantage |-> None],
      [Ltotalclass |-> Some(0), Ltotalpres |-> Some(0), Ttotalclass |-> Some(0),
       Ttotalpres |-> None, Ptotalclass |-> None, Ptotalpres |-> Some(0),
       Lpercentage |-> Some(Zero), Tpercentage |-> Some(Zero), Ppercentage |-> None,
       LTpercantage |-> Some(Zero)],
      [Ltotalclass |-> Some(40), Ltotalpres |-> Some(30), Ttotalclass |-> None,
       Ttotalpres |-> None, Ptotalclass |-> None, Ptotalpres |-> None,
       Lpercentage |-> None, Tpercentage |-> None, Ppercentage |-> None,
       LTpercantage |-> None],
      [Ltotalclass |-> Some(40), Ltotalpres |-> Some(30), Ttotalclass |-> Some(10),
       Ttotalpres |-> Some(5), Ptotalclass |-> Some(0), Ptotalpres |-> None,
       Lpercentage |-> Some(<<75, 1>>), Tpercentage |-> Some(<<50, 1>>),
       Ppercentage |-> Some(Zero), LTpercantage |-> Some(<<80, 1>>)],
      [Ltotalclass |-> None, Ltotalpres |-> None, Ttotalclass |-> Some(10),
       Ttotalpres |-> Some(5), Ptotalclass |-> Some(2), Ptotalpres |-> Some(2),
       Lpercentage |-> None, Tpercentage |-> Some(<<50, 1>>),
       Ppercentage |-> Some(<<100, 1>>), LTpercantage |-> Some(Zero)] }

\* counts the portal is free to send: more lectures attended than held
OverCountProfile ==
    [Ltotalclass |-> Some(10), Ltotalpres |-> Some(12), Ttotalclass |-> None,
     Ttotalpres |-> None, Ptotalclass |-> None, Ptotalpres |-> None,
     Lpercentage |-> None, Tpercentage |-> None, Ppercentage |-> None,
     LTpercantage |-> None]

AttendanceRecords ==
    { [subjectcode |-> c, subjectid |-> s, counts |-> p] :
        c \in {None, Some("CS101"), Some("MA102")}, s \in {None, Some("S1")},
        p \in CountProfiles }
    \cup { [subjectcode |-> Some("CS101"), subjectid |-> Some("S1"),
            counts |-> OverCountProfile] }

RECURSIVE SeqsUpTo(_, _)
SeqsUpTo(S, n) ==
    IF n = 0 THEN {<<>>}
    ELSE LET shorter == SeqsUpTo(S, n - 1) IN
         shorter \cup { Append(q, x) : q \in {r \in shorter : Len(r) = n - 1}, x \in S }

AttendanceResponses == SeqsUpTo(AttendanceRecords, MaxRecords)

\* lines 183-194: the subject code and the summed counts of one record
SubjectCodeOf(rec) == GetOr(rec.subjectcode, UnknownSubject)

SubjectTotal(rec) ==
    GetOr(rec.counts.Ltotalclass, 0) + GetOr(rec.counts.Ttotalclass, 0)
        + GetOr(rec.counts.Ptotalclass, 0)

SubjectPresent(rec) ==
    GetOr(rec.counts.Ltotalpres, 0) + GetOr(rec.counts.Ttotalpres, 0)
        + GetOr(rec.counts.Ptotalpres, 0)

\* the percentage computed from the counts whatever the record says
BasicPercentageFromCounts(rec) ==
    Percent(SubjectPresent(rec), SubjectTotal(rec))

\* line 202: the basic percentage of a record with classes
BasicPercentage(rec) ==
    LET overall_ltp_percentage == GetOr(rec.counts.LTpercantage, Zero) IN
    IF FracPositive(overall_ltp_percentage) THEN overall_ltp_percentage
    ELSE Percent(SubjectPresent(rec), SubjectTotal(rec))

\* lines 199-210: the entry stored for a record
BasicEntry(rec) ==
    [total |-> SubjectTotal(rec),
     attended |-> SubjectPresent(rec),
     percentage |-> BasicPercentage(rec),
     subject_id |-> GetOr(rec.subjectid, "")]

\* a loop that skips no record
SkipNoRecord(rec) == FALSE

\* line 196: a record with no classes is skipped
SkipRecord(rec) == SubjectTotal(rec) = 0

\* lines 180-210: the first loop, records 1..n folded into a dict
RECURSIVE BuildBasic(_, _)
BuildBasic(recs, n) ==
    IF n = 0 THEN EmptyDict
    ELSE LET d == BuildBasic(recs, n - 1) IN
         IF SkipRecord(recs[n]) THEN d
         ELSE DictPut(d, SubjectCodeOf(recs[n]), BasicEntry(recs[n]))

\* insertion order of the dict built by the first loop
RECURSIVE BuildOrder(_, _)
BuildOrder(recs, n) ==
    IF n = 0 THEN <<>>
    ELSE LET o == BuildOrder(recs, n - 1) IN
         IF SkipRecord(recs[n]) \/ (\E i \in 1..Len(o) : o[i] = SubjectCodeOf(recs[n]))
         THEN o
         ELSE Append(o, SubjectCodeOf(recs[n]))

(***************************************************************************)
(* Attendance: the per-subject detailed call                              *)
(* (_get_detailed_subject_attendance) and what fetch_attendance reads of   *)
(* its result.                                                             *)
(***************************************************************************)
\* the per-lecture lists a 'Success' body can carry; "notadict" is an
\* element that is not a JSON object
LectureLists ==
    { <<>>,
      <<"Present", "Absent", "Present">>,
      <<"Present", "present">>,
      <<"Absent", "notadict">> }

NoDetail ==
    [call |-> "none", shape |-> "none", status |-> "none", responseStatus |-> "",
     response |-> "none", list |-> <<>>]

\* calls that end inside _get_detailed_subject_attendance with None:
\* payload generation failed (line 132), get_headers or the POST raised
\* (line 161), the status was not 200 (line 157), the body was not JSON
FailedCalls ==
    { [NoDetail EXCEPT !.call = c] :
        c \in {"payload_failed", "no_headers", "timeout", "exception",
               "non200", "bad_json"} }

\* calls that return response.json() (line 156): a falsy body, a truthy
\* body that is not an object, or an object
ReturnedBodies ==
    { [NoDetail EXCEPT !.call = "ok200", !.shape = s] : s \in {"falsy", "nondict"} }
    \cup
    { [call |-> "ok200", shape |-> "dict", status |-> st.status,
       responseStatus |-> st.responseStatus, response |-> rp.response,
       list |-> rp.list] :
        st \in { [status |-> "missing", responseStatus |-> ""],
                 [status |-> "nondict", responseStatus |-> ""],
                 [status |-> "dict", responseStatus |-> "Success"],
                 [status |-> "dict", responseStatus |-> "Failure"] },
        rp \in { [response |-> "missing", list |-> <<>>],
                 [response |-> "nondict", list |-> <<>>] }
               \cup { [response |-> "dict", list |-> l] : l \in LectureLists } }

DetailOutcomes == FailedCalls \cup ReturnedBodies

\* lines 129-163: the value _get_detailed_subject_attendance returns
DetailedData(r) == IF r.call = "ok200" THEN Some(r) ELSE None

\* line 225: "detailed_data and ..." is taken only for a truthy value
DetailTruthy(r) == DetailedData(r) # None /\ r.shape # "falsy"

\* line 225: detailed_data.get('status', {}).get('responseStatus') == 'Success'
DetailSuccess(r) ==
    DetailTruthy(r) /\ r.shape = "dict" /\ r.status = "dict"
        /\ r.responseStatus = "Success"

\* line 226: detailed_data.get('response', {}).get('studentAttdsummarylist', [])
AttendanceList(r) ==
    IF DetailSuccess(r) /\ r.response = "dict" THEN r.list ELSE <<>>

\* lines 225-230: the attribute lookups that fail on a value that is not a
\* dict (.get on a list, a string, a number or None)
DetailRaises(r) ==
    /\ DetailTruthy(r)
    /\ \/ r.shape = "nondict"
       \/ r.status = "nondict"
       \/ DetailSuccess(r) /\ r.response = "nondict"
       \/ \E i \in 1..Len(AttendanceList(r)) : AttendanceList(r)[i] = "notadict"

\* a count that takes every entry not marked "Absent" as attended
PresentCountNotAbsent(l, n) == Cardinality({ i \in 1..n : l[i] # "Absent" })

\* line 230: entries whose 'present' is literally "Present"
RECURSIVE PresentCount(_, _)
PresentCount(l, n) ==
    IF n = 0 THEN 0
    ELSE PresentCount(l, n - 1) + (IF l[n] = "Present" THEN 1 ELSE 0)

\* lines 234-242: the entry that replaces the basic one
EnhancedEntry(basic_data, l) ==
    [total |-> Len(l),
     attended |-> PresentCount(l, Len(l)),
     absent |-> Len(l) - PresentCount(l, Len(l)),
     percentage |-> IF Len(l) > 0 THEN Percent(PresentCount(l, Len(l)), Len(l)) ELSE Zero,
     subject_id |-> basic_data.subject_id,
     detailed_data |-> l]

\* lines 252-262: the snapshot returned
AttendanceData(subjects, classes, attended) ==
    [total_classes |-> classes,
     attended_classes |-> attended,
     attendance_percentage |-> IF classes > 0 THEN Percent(attended, classes) ELSE Zero,
     subjects |-> subjects,
     enhanced |-> TRUE]

NoReturn == [kind |-> "none", exc |-> "", value |-> <<>>]

Returned(v) == [kind |-> "value", exc |-> "", value |-> <<v>>]

Raised(e) == [kind |-> "raise", exc |-> e, value |-> <<>>]

\* the call returned None
ReturnedNone == [kind |-> "value_none", exc |-> "", value |-> <<>>]

(***************************************************************************)
(* Attendance: fetch_attendance as a state machine.  The first loop runs   *)
(* in A_Fetch, the second loop takes one step per subject.  The operation  *)
(* keeps no state between calls, so a behaviour is one call.               *)
(***************************************************************************)
AttInit ==
    /\ att_pc = "idle"
    /\ att_records = <<>>
    /\ basic_subjects = EmptyDict
    /\ basic_order = <<>>
    /\ att_idx = 1
    /\ enhanced_subjects = EmptyDict
    /\ total_classes = 0
    /\ total_attended = 0
    /\ att_detail = NoDetail
    /\ att_ret = NoReturn

\* lines 167-178 failing: login() fails (LoginError), no webportal handle
\* (APIError) or an exception of the aggregate call; re-raised at line 269
A_FetchFails ==
    /\ att_pc = "idle"
    /\ \E e \in {"LoginError", "APIError", "Exception"} :
        /\ e = "LoginError" => session # "in"
        /\ session' = IF e = "LoginError" THEN "out" ELSE "in"
        /\ att_ret' = Raised(e)
    /\ att_records' = <<>>
    /\ basic_subjects' = EmptyDict
    /\ basic_order' = <<>>
    /\ att_idx' = 1
    /\ enhanced_subjects' = EmptyDict
    /\ total_classes' = 0
    /\ total_attended' = 0
    /\ att_detail' = NoDetail
    /\ att_pc' = "done"
    /\ UNCHANGED <<marks_state, poll_vars, drv_vars, cmd_vars, fn_vars, ses_vars, iv_vars>>

\* lines 167-214: the aggregate call succeeds and the first loop runs
A_Fetch ==
    /\ att_pc = "idle"
    /\ \E recs \in AttendanceResponses :
        /\ att_records' = recs
        /\ basic_subjects' = BuildBasic(recs, Len(recs))
        /\ basic_order' = BuildOrder(recs, Len(recs))
    /\ att_pc' = "loop"
    /\ att_idx' = 1
    /\ enhanced_subjects' = EmptyDict
    /\ total_classes' = 0
    /\ total_attended' = 0
    /\ att_detail' = NoDetail
    /\ att_ret' = NoReturn
    /\ session' = "in"
    /\ UNCHANGED <<marks_state, poll_vars, drv_vars, cmd_vars, fn_vars, ses_vars, iv_vars>>

\* lines 216-220: a subject without subject id is copied as it is
A_SubjectWithoutId ==
    /\ att_pc = "loop"
    /\ att_idx <= Len(basic_order)
    /\ LET subject_name == basic_order[att_idx]
           basic_data == basic_subjects[subject_name] IN
        /\ basic_data.subject_id = ""
        /\ enhanced_subjects' = DictPut(enhanced_subjects, subject_name, basic_data)
    /\ att_idx' = att_idx + 1
    /\ att_detail' = NoDetail
    /\ UNCHANGED <<att_pc, att_records, basic_subjects, basic_order,
                   total_classes, total_attended, att_ret>>
    /\ UNCHANGED <<marks_vars, poll_vars, drv_vars, cmd_vars, fn_vars, ses_vars, iv_vars>>

\* lines 222-250: a subject with a subject id, one detailed call
A_SubjectDetailed ==
    /\ att_pc = "loop"
    /\ att_idx <= Len(basic_order)
    /\ LET subject_name == basic_order[att_idx]
           basic_data == basic_subjects[subject_name] IN
        /\ basic_data.subject_id # ""
        /\ \E r \in DetailOutcomes :
            /\ att_detail' = r
            /\ IF DetailRaises(r)
               THEN /\ att_ret' = Raised("AttributeError")
                    /\ att_pc' = "done"
                    /\ UNCHANGED <<enhanced_subjects, total_classes,
                                   total_attended, att_idx>>
               ELSE /\ att_idx' = att_idx + 1
                    /\ UNCHANGED <<att_pc, att_ret>>
                    /\ IF AttendanceList(r) # <<>>
                       THEN LET e == EnhancedEntry(basic_data, AttendanceList(r)) IN
                            /\ enhanced_subjects' =
                                   DictPut(enhanced_subjects, subject_name, e)
                            /\ total_classes' = total_classes + e.total
                            /\ total_attended' = total_attended + e.attended
                       ELSE /\ enhanced_subjects' =
                                   DictPut(enhanced_subjects, subject_name, basic_data)
                            /\ total_classes' = total_classes + basic_data.total
                            /\ total_attended' = total_attended + basic_data.attended
    /\ UNCHANGED <<att_records, basic_subjects, basic_order>>
    /\ UNCHANGED <<marks_vars, poll_vars, drv_vars, cmd_vars, fn_vars, ses_vars, iv_vars>>

\* lines 252-265: the snapshot is built and returned
A_Return ==
    /\ att_pc = "loop"
    /\ att_idx > Len(basic_order)
    /\ att_ret' = Returned(AttendanceData(enhanced_subjects, total_classes,
                                          total_attended))
    /\ att_pc' = "done"
    /\ UNCHANGED <<att_records, basic_subjects, basic_order, att_idx,
                   enhanced_subjects, total_classes, total_attended, att_detail>>
    /\ UNCHANGED <<marks_vars, poll_vars, drv_vars, cmd_vars, fn_vars, ses_vars, iv_vars>>

AttNext ==
    \/ A_FetchFails
    \/ A_Fetch
    \/ A_SubjectWithoutId
    \/ A_SubjectDetailed
    \/ A_Return

(***************************************************************************)
(* Texts and the derivation of a semester's display name.  The derivation  *)
(* is written out once in fetch_marks_semesters and once more in           *)
(* fetch_marks_for_semester; each copy is modelled from its own lines.     *)
(***************************************************************************)
Digits == {"0", "1", "2", "3", "4", "5", "6", "7", "8", "9"}

\* str.upper() on the letters the model uses
UpperChar(c) ==
    CASE c = "o" -> "O" [] c = "d" -> "D" [] c = "e" -> "E" [] c = "v" -> "V"
      [] c = "n" -> "N" [] c = "s" -> "S" [] c = "u" -> "U" [] c = "m" -> "M"
      [] c = "r" -> "R" [] c = "t" -> "T" [] OTHER -> c

Upper(s) == [i \in 1..Len(s) |-> UpperChar(s[i])]

\* sub occurs in s at position i
OccursAt(sub, s, i) ==
    /\ i + Len(sub) - 1 <= Len(s)
    /\ \A j \in 1..Len(sub) : s[i + j - 1] = sub[j]

\* the Python test "sub in s"
Contains(sub, s) == \E i \in 1..Len(s) : OccursAt(sub, s, i)

\* re.search(r'(\d{n})', s): the leftmost run of n digits, as an optional text
DigitRunAt(s, n, i) ==
    /\ i + n - 1 <= Len(s)
    /\ \A j \in i..(i + n - 1) : s[j] \in Digits

FirstDigitRun(s, n) ==
    LET starts == { i \in 1..Len(s) : DigitRunAt(s, n, i) } IN
    IF starts = {} THEN None
    ELSE LET i == CHOOSE x \in starts : \A y \in starts : x <= y IN
         Some(SubSeq(s, i, i + n - 1))

\* re.search(r'\(([^)]+)\)', s): the text between the leftmost "(" that is
\* followed by at least one character other than ")" and the next ")"
ClosingAfter(s, i) ==
    { j \in (i + 2)..Len(s) : s[j] = ")" /\ \A k \in (i + 1)..(j - 1) : s[k] # ")" }

ParenContent(s) ==
    LET opens == { i \in 1..Len(s) : s[i] = "(" /\ ClosingAfter(s, i) # {} } IN
    IF opens = {} THEN <<>>
    ELSE LET i == CHOOSE x \in opens : \A y \in opens : x <= y
             j == CHOOSE x \in ClosingAfter(s, i) : TRUE IN
         SubSeq(s, i + 1, j - 1)

DigitValue(c) ==
    CASE c = "0" -> 0 [] c = "1" -> 1 [] c = "2" -> 2 [] c = "3" -> 3
      [] c = "4" -> 4 [] c = "5" -> 5 [] c = "6" -> 6 [] c = "7" -> 7
      [] c = "8" -> 8 [] OTHER -> 9

T_ODD == <<"O", "D", "D">>
T_EVE == <<"E", "V", "E">>
T_EVEN == <<"E", "V", "E", "N">>
T_SUMMER == <<"S", "U", "M", "M", "E", "R">>
T_Odd == <<"O", "d", "d">>
T_Even == <<"E", "v", "e", "n">>
T_Summer == <<"S", "u", "m", "m", "e", "r">>
T_Semester == <<" ", "S", "e", "m", "e", "s", "t", "e", "r">>
T_UnknownSemester ==
    <<"U", "n", "k", "n", "o", "w", "n">> \o T_Semester

\* lines 452-457 and 638-643: the registration code, from the parentheses
\* of the name or else from the object's registration_code attribute
RegCodeOf(sem) ==
    LET in_parens == ParenContent(sem.semester_name) IN
    IF in_parens # <<>> THEN in_parens ELSE sem.registration_code

\* lines 460 and 647
RegCodeUpper(sem) ==
    IF RegCodeOf(sem) # <<>> THEN Upper(RegCodeOf(sem)) ELSE Upper(sem.semester_name)

\* a year taken from runs of four digits only
YearOfFourDigitRun(sem) ==
    IF FirstDigitRun(RegCodeUpper(sem), 4) # None
    THEN FirstDigitRun(RegCodeUpper(sem), 4)
    ELSE FirstDigitRun(Upper(sem.semester_name), 4)

\* lines 463-489 and 650-676: the year.  The pattern (\d{2})(\d{2}) can
\* match only where (\d{4}) already did, so the patterns reduce to a run of
\* four digits and then a run of two.
YearOf(sem) ==
    LET four == FirstDigitRun(RegCodeUpper(sem), 4)
        two == FirstDigitRun(RegCodeUpper(sem), 2)
        in_name == FirstDigitRun(Upper(sem.semester_name), 4) IN
    IF four # None THEN four
    ELSE IF two # None
         THEN LET year_part == CHOOSE y \in two : TRUE IN
              IF DigitValue(year_part[1]) * 10 + DigitValue(year_part[2]) >= 50
              THEN Some(<<"1", "9">> \o year_part)
              ELSE Some(<<"2", "0">> \o year_part)
         ELSE in_name

\* f"{type} {year}" if year else f"{type} Semester"
TypedName(type, year) ==
    IF year # None THEN type \o <<" ">> \o (CHOOSE y \in year : TRUE)
    ELSE type \o T_Semester

\* lines 492-497 and 680-685: the type tests, in their order
IsOdd(sem) ==
    Contains(T_ODD, RegCodeUpper(sem)) \/ Contains(T_ODD, Upper(sem.semester_name))

IsEven(sem) ==
    Contains(T_EVE, RegCodeUpper(sem)) \/ Contains(T_EVEN, Upper(sem.semester_name))

IsSummer(sem) ==
    Contains(T_SUMMER, RegCodeUpper(sem)) \/ Contains(T_SUMMER, Upper(sem.semester_name))

\* lines 448-500: the display name fetch_marks_semesters derives
ListDisplayName(sem) ==
    IF IsOdd(sem) THEN TypedName(T_Odd, YearOf(sem))
    ELSE IF IsEven(sem) THEN TypedName(T_Even, YearOf(sem))
    ELSE IF IsSummer(sem) THEN TypedName(T_Summer, YearOf(sem))
    ELSE IF sem.semester_name # <<>> THEN sem.semester_name
    ELSE T_UnknownSemester

\* lines 634-685: the display name fetch_marks_for_semester re-derives
ResolveDisplayName(sem) ==
    IF IsOdd(sem) THEN TypedName(T_Odd, YearOf(sem))
    ELSE IF IsEven(sem) THEN TypedName(T_Even, YearOf(sem))
    ELSE IF IsSummer(sem) THEN TypedName(T_Summer, YearOf(sem))
    ELSE sem.semester_name

\* lines 384-389 and 562-566: fetch_semesters and download_marks look for
\* the year in the registration code only, as a run of four digits
YearInRegCode(sem) ==
    IF RegCodeOf(sem) # <<>> THEN FirstDigitRun(RegCodeOf(sem), 4) ELSE None

\* lines 371-402: the display name fetch_semesters derives
SemestersDisplayName(sem) ==
    IF IsOdd(sem) THEN TypedName(T_Odd, YearInRegCode(sem))
    ELSE IF IsEven(sem) THEN TypedName(T_Even, YearInRegCode(sem))
    ELSE IF IsSummer(sem) THEN TypedName(T_Summer, YearInRegCode(sem))
    ELSE IF sem.semester_name # <<>> THEN sem.semester_name
    ELSE T_UnknownSemester

\* lines 552-574: the display name download_marks derives
DownloadDisplayName(sem) ==
    IF IsOdd(sem) THEN TypedName(T_Odd, YearInRegCode(sem))
    ELSE IF IsEven(sem) THEN TypedName(T_Even, YearInRegCode(sem))
    ELSE IF IsSummer(sem) THEN TypedName(T_Summer, YearInRegCode(sem))
    ELSE sem.semester_name

\* lines 445-502: the list of display names
SemesterNames(semesters) == [i \in 1..Len(semesters) |-> ListDisplayName(semesters[i])]

\* a lookup that falls back on the first object
TargetSemesterOrFirst(semesters, semester) ==
    LET hits == { i \in 1..Len(semesters) : ResolveDisplayName(semesters[i]) = semester } IN
    IF hits = {} THEN (IF Len(semesters) > 0 THEN 1 ELSE 0)
    ELSE CHOOSE i \in hits : \A j \in hits : i <= j

\* lines 629-691: the index of the first object whose display name is the
\* requested one, 0 when there is none
TargetSemester(semesters, semester) ==
    LET hits == { i \in 1..Len(semesters) : ResolveDisplayName(semesters[i]) = semester } IN
    IF hits = {} THEN 0 ELSE CHOOSE i \in hits : \A j \in hits : i <= j

\* the semester objects the portal can list
SemesterObjects ==
    { [semester_name |-> <<"O", "D", "D", " ", "2", "0", "2", "4">>,
       registration_code |-> <<>>],
      [semester_name |-> <<"S", "E", "M", "1">>,
       registration_code |-> <<>>],
      [semester_name |-> <<>>,
       registration_code |-> <<>>] }

(***************************************************************************)
(* The marks cache (lines 52-68).                                          *)
(***************************************************************************)
CacheDuration == 300

K_latest == <<"latest_marks">>

K_semesters == <<"marks_semesters">>

\* f"marks_semester_{semester}"
K_semester(semester) == <<"marks_semester_", semester>>

\* a validity test that still accepts the instant of expiry
IsCacheValidInclusive(cache_key) ==
    /\ cache_key \in DOMAIN marks_cache_expiry
    /\ now <= marks_cache_expiry[cache_key]

\* lines 56-59
IsCacheValid(cache_key) ==
    /\ cache_key \in DOMAIN marks_cache_expiry
    /\ now < marks_cache_expiry[cache_key]

\* lines 65-68
GetCache(cache_key) ==
    IF IsCacheValid(cache_key) THEN Some(marks_cache[cache_key]) ELSE None

\* lines 61-63, on a cache and an expiry dict
SetCacheValue(cache, cache_key, data) == DictPut(cache, cache_key, data)

SetCacheExpiry(expiry, cache_key) == DictPut(expiry, cache_key, now + CacheDuration)

(***************************************************************************)
(* What the portal can answer to the marks calls.                          *)
(***************************************************************************)
MaxRetries == 3

Threads == {"poll", "cmd"}

Exceptions == {"ConnectionError", "Timeout"}

SgpaCgpaValues ==
    { None, Some([sgpa |-> 7, cgpa |-> 8]) }

SemesterLists == SeqsUpTo(SemesterObjects, MaxSemesters)

\* every label a caller can ask for: the names either derivation gives and
\* one that no semester has
Labels ==
    { ListDisplayName(o) : o \in SemesterObjects }
        \cup { ResolveDisplayName(o) : o \in SemesterObjects }
        \cup { <<"N", "o">> }

\* get_grade_card: nothing, or a dict with or without a 'gradecard' list
GradeObject ==
    [subject_name |-> <<"M", "a", "t", "h", "s">>, internal_marks |-> <<12, 1>>,
     external_marks |-> <<30, 1>>]

GradeCards ==
    { [kind |-> "none", entries |-> <<>>],
      [kind |-> "dict", entries |-> <<>>],
      [kind |-> "dict_gradecard", entries |-> <<>>],
      [kind |-> "dict_gradecard", entries |-> <<GradeObject>>] }

NoGradeCard == [kind |-> "none", entries |-> <<>>]

\* "if grade_card:" (a dict always carries some key here)
GradeCardTruthy(g) == g.kind # "none"

\* lines 332-342: fetch_marks iterates the grade card itself; iterating a
\* dict yields its keys, which have no subject_name attribute
LatestSubjects(g) ==
    IF ~GradeCardTruthy(g) THEN EmptyDict
    ELSE [n \in {UnknownSubject} |-> [internal |-> 0, external |-> 0, total |-> 0]]

\* lines 724-731: fetch_marks_for_semester reads grade_card['gradecard']
SemesterSubjects(g) ==
    IF GradeCardTruthy(g) /\ g.kind = "dict_gradecard"
    THEN [n \in { g.entries[i].subject_name : i \in 1..Len(g.entries) } |->
             [t1 |-> g.entries[CHOOSE i \in 1..Len(g.entries) :
                                   g.entries[i].subject_name = n].internal_marks,
              grade |-> <<>>]]
    ELSE EmptyDict

(***************************************************************************)
(* The marks PDF: _extract_marks_from_pdf and _parse_marks_line.  A number *)
(* is a fraction; the text 'A' that stands for "absent" in 't1' is the     *)
(* pair <<0, 0>>, which no number is.                                      *)
(***************************************************************************)
Absent == <<0, 0>>

\* str.startswith and str.endswith
StartsWith(s, p) == Len(p) <= Len(s) /\ SubSeq(s, 1, Len(p)) = p

EndsWith(s, p) == Len(p) <= Len(s) /\ SubSeq(s, Len(s) - Len(p) + 1, Len(s)) = p

\* str.strip() (the only whitespace inside a line is the blank)
RECURSIVE LStrip(_)
LStrip(s) == IF s # <<>> /\ Head(s) = " " THEN LStrip(Tail(s)) ELSE s

RECURSIVE RStrip(_)
RStrip(s) ==
    IF s # <<>> /\ s[Len(s)] = " " THEN RStrip(SubSeq(s, 1, Len(s) - 1)) ELSE s

Strip(s) == RStrip(LStrip(s))

\* str.split(): the maximal runs of non-blank characters, in order
RECURSIVE SplitFrom(_, _, _)
SplitFrom(s, i, word) ==
    IF i > Len(s) THEN (IF word = <<>> THEN <<>> ELSE <<word>>)
    ELSE IF s[i] = " "
         THEN (IF word = <<>> THEN <<>> ELSE <<word>>) \o SplitFrom(s, i + 1, <<>>)
         ELSE SplitFrom(s, i + 1, Append(word, s[i]))

Split(s) == SplitFrom(s, 1, <<>>)

\* text.split('/', 1)[0]: the text before the first '/'
BeforeSlash(s) ==
    LET i == CHOOSE x \in 1..Len(s) : s[x] = "/" /\ \A y \in 1..(x - 1) : s[y] # "/" IN
    SubSeq(s, 1, i - 1)

RECURSIVE DigitsValue(_)
DigitsValue(s) ==
    IF s = <<>> THEN 0 ELSE DigitsValue(SubSeq(s, 1, Len(s) - 1)) * 10 + DigitValue(s[Len(s)])

RECURSIVE PowerOfTen(_)
PowerOfTen(n) == IF n = 0 THEN 1 ELSE 10 * PowerOfTen(n - 1)

\* float(text) on digits with at most one '.': the number, or nothing when
\* float raises ValueError
ParseFloat(s) ==
    LET dots == { i \in 1..Len(s) : s[i] = "." }
        digits == { i \in 1..Len(s) : s[i] \in Digits } IN
    IF digits = {} \/ Cardinality(dots) > 1 \/ Cardinality(dots) + Cardinality(digits) # Len(s)
    THEN None
    ELSE IF dots = {} THEN Some(Frac(DigitsValue(s), 1))
    ELSE LET d == CHOOSE i \in dots : TRUE
             whole == SubSeq(s, 1, d - 1)
             frac == SubSeq(s, d + 1, Len(s)) IN
         Some(Frac(DigitsValue(whole \o frac), PowerOfTen(Len(frac))))

\* lines 973-974 and 988-989: float(obtained.strip()) if obtained.strip()
\* else 0; nothing when float raises
ObtainedMarks(token) ==
    LET obtained == Strip(BeforeSlash(token)) IN
    IF obtained = <<>> THEN Some(Zero) ELSE ParseFloat(obtained)

\* lines 954-1001: the parsed marks line, or nothing (None) when no rule
\* applies or the number cannot be read (the ValueError is caught at 999)
ParseMarksLine(text) ==
    LET marks_line == Strip(text)
        parts == Split(marks_line)
        marks_parts == SelectSeq(parts, LAMBDA q : Contains(<<"/">>, q)) IN
    IF StartsWith(marks_line, <<"A", " ">>) /\ Len(parts) >= 2
           /\ Contains(<<"/">>, parts[2])
    THEN Some([t1 |-> Absent, grade |-> <<>>])
    ELSE IF (\E g \in {"B", "C", "D", "F"} : StartsWith(marks_line, <<g>>))
               /\ Len(parts) >= 2 /\ Contains(<<"/">>, parts[2])
    THEN IF ObtainedMarks(parts[2]) = None THEN None
         ELSE Some([t1 |-> GetOr(ObtainedMarks(parts[2]), Zero), grade |-> parts[1]])
    ELSE IF Contains(<<"/">>, marks_line)
    THEN IF ObtainedMarks(marks_parts[1]) = None THEN None
         ELSE Some([t1 |-> GetOr(ObtainedMarks(marks_parts[1]), Zero), grade |-> <<>>])
    ELSE None

\* lines 905-916: the prefixes of lines that are no subject name
NoSubjectPrefixes ==
    { <<"(">>,
      <<"P", "a", "g", "e">>,
      <<"J", "a", "y", "p", "e", "e">>,
      <<"S", "u", "b", "j", "e", "c", "t">>,
      <<"N", "a", "m", "e", ":">>,
      <<"R", "e", "g", "i", "s", "t", "r", "a", "t", "i", "o", "n">>,
      <<"L", "e", "g", "e", "n", "d">>,
      <<"O", "M", "/", "F", "M">>,
      <<"T", "h", "u">>,
      <<"A", "-", "1", "0">>,
      <<"N", "o", "i", "d", "a">> }

\* lines 903-917: the test for a subject-name line, on the stripped line
IsSubjectLine(line) ==
    /\ line # <<>>
    /\ \A p \in NoSubjectPrefixes : ~StartsWith(line, p)
    /\ \A i \in 1..Len(line) : i <= 10 => line[i] \notin Digits
    /\ Len(line) > 10

\* lines 898-944: the scan from line i on (counted from 1), with the
\* subjects found so far
RECURSIVE ScanLines(_, _, _)
ScanLines(lines, i, subjects) ==
    IF i > Len(lines) THEN subjects
    ELSE LET line == Strip(lines[i])
             marks_line == IF i + 1 <= Len(lines) THEN Strip(lines[i + 1]) ELSE <<>>
             code_line == IF i + 2 <= Len(lines) THEN Strip(lines[i + 2]) ELSE <<>> IN
         IF IsSubjectLine(line) /\ i + 1 <= Len(lines) /\ ParseMarksLine(marks_line) # None
         THEN LET parsed == GetOr(ParseMarksLine(marks_line), [t1 |-> Zero, grade |-> <<>>])
                  subject_code ==
                      IF StartsWith(code_line, <<"(">>) /\ EndsWith(code_line, <<")">>)
                      THEN SubSeq(code_line, 2, Len(code_line) - 1)
                      ELSE <<>> IN
              ScanLines(lines, i + 3,
                        DictPut(subjects, line,
                                [subject_code |-> subject_code, t1 |-> parsed.t1,
                                 grade |-> parsed.grade, marks_line |-> marks_line]))
         ELSE ScanLines(lines, i + 1, subjects)

\* the lines of text a marks PDF can hold (text_content.split('\n')): no
\* text, a header only, one subject with its marks line, two subjects each
\* followed by its marks line
PdfTexts ==
    { <<<<>>>>,
      <<<<"J", "a", "y", "p", "e", "e", " ", "I", "n", "s", "t", "i", "t", "u", "t", "e", " ", "o", "f", " ", "I", "T">>,
        <<"P", "a", "g", "e", " ", "1">>, <<>>>>,
      <<<<"P", "h", "y", "s", "i", "c", "s", " ", "L", "a", "b", " ", "O", "n", "e">>,
        <<"B", " ", "1", "5", ".", "0", "/", "2", "0", ".", "0">>, <<>>>>,
      <<<<"P", "h", "y", "s", "i", "c", "s", " ", "L", "a", "b", " ", "O", "n", "e">>,
        <<"B", " ", "1", "5", ".", "0", "/", "2", "0", ".", "0">>,
        <<"C", "h", "e", "m", "i", "s", "t", "r", "y", " ", "L", "a", "b">>,
        <<"C", " ", "1", "2", ".", "0", "/", "2", "0", ".", "0">>, <<>>>> }

NoPdf == [kind |-> "none", lines |-> <<>>]

\* what download_marks and pdfplumber can do: the download raises, gives
\* no bytes, gives bytes that pdfplumber cannot read, or gives a PDF with
\* some text
PdfOutcomes ==
    { [kind |-> "download_raises", lines |-> <<>>],
      [kind |-> "empty_bytes", lines |-> <<>>],
      [kind |-> "extract_raises", lines |-> <<>>] }
        \cup { [kind |-> "text", lines |-> l] : l \in PdfTexts }

\* lines 884-952: _extract_marks_from_pdf, which gives {} when it fails
ExtractMarksFromPdf(outcome) ==
    IF outcome.kind = "text" THEN ScanLines(outcome.lines, 1, EmptyDict) ELSE EmptyDict

\* lines 740-755: the subjects the PDF fallback leaves in marks_data
PdfSubjects(outcome) ==
    IF outcome.kind \in {"download_raises", "empty_bytes"} THEN EmptyDict
    ELSE ExtractMarksFromPdf(outcome)

\* lines 310-316: the latest-marks dict
LatestMarks(sgpa_cgpa_data, subjects) ==
    LET sgpa == IF sgpa_cgpa_data = None THEN 0 ELSE (CHOOSE d \in sgpa_cgpa_data : TRUE).sgpa
        cgpa == IF sgpa_cgpa_data = None THEN 0 ELSE (CHOOSE d \in sgpa_cgpa_data : TRUE).cgpa IN
    [k \in {<<"subjects">>, <<"sgpa">>, <<"cgpa">>, <<"gpa">>, <<"last_updated">>} |->
        CASE k = <<"subjects">> -> subjects
          [] k = <<"sgpa">> -> sgpa
          [] k = <<"cgpa">> -> cgpa
          [] k = <<"gpa">> -> cgpa
          [] OTHER -> now]

\* lines 718-722
SemesterMarks(semester, subjects) ==
    [subjects |-> subjects, semester |-> semester, last_updated |-> now]

(***************************************************************************)
(* The marks operations as a state machine.  Each thread runs one call at  *)
(* a time; a call takes one step per cache access, login and upstream call *)
(* attempt.  th[t] holds the call's locals, its result and the history of  *)
(* the call (attempts made and failed, exception of the last failed        *)
(* attempt).  The clock is read where a call begins, re-reads the cache or *)
(* ends, so time passes between those points.                              *)
(***************************************************************************)
IdleThread ==
    [pc |-> "idle", op |-> "", semester |-> <<>>, attempt |-> 0,
     sgpa_cgpa_data |-> None, target |-> 0, subjects |-> EmptyDict,
     ret |-> NoReturn,
     called |-> {},              \* history: the calls attempted
     cur_call |-> "",            \* history: the call whose retry loop runs
     cur_tries |-> 0,            \* history: its attempts so far
     cur_raised |-> 0,           \* history: those that raised
     cur_ok |-> FALSE,           \* history: one of them succeeded
     retried_after_ok |-> FALSE, \* history: an attempt followed a success
     last_exc |-> "",            \* history: exception of the last attempt
     hit |-> FALSE,              \* history: the cache answered
     card |-> NoGradeCard,       \* history: grade card of fetch_marks_for_semester
     pdf |-> NoPdf]              \* history: what the PDF fallback met

MarksInit ==
    /\ now = 0
    /\ session = "none"
    /\ marks_cache = EmptyDict
    /\ marks_cache_expiry = EmptyDict
    /\ marks_data = EmptyDict
    /\ marks_semesters = <<>>
    /\ marks_semester_data = None
    /\ marks_loading = FALSE
    /\ th = [t \in Threads |-> IdleThread]
    /\ ops = 0
    /\ cache_set_at = EmptyDict
    /\ cache_stored = EmptyDict
    /\ portal_semesters \in SemesterLists

\* a call begins: fresh locals and a fresh history
Begin(op, semester, pc) ==
    [IdleThread EXCEPT !.pc = pc, !.op = op, !.semester = semester]

\* a call ends with result r; its locals are dropped, its history is kept
End(c, r) ==
    [c EXCEPT !.pc = "idle", !.ret = r, !.attempt = 0, !.sgpa_cgpa_data = None,
              !.subjects = EmptyDict]

\* a call was made outside a retry loop
Tried(c, call) == [c EXCEPT !.called = @ \cup {call}]

\* an attempt succeeded and its loop is left
TriedOk(c, call) ==
    [c EXCEPT !.called = @ \cup {call}, !.cur_call = "", !.cur_tries = 0,
              !.cur_raised = 0, !.cur_ok = FALSE, !.last_exc = "",
              !.retried_after_ok = @ \/ c.cur_ok]

\* an attempt succeeded and its loop goes on
TriedOkAgain(c, call) ==
    [c EXCEPT !.called = @ \cup {call}, !.cur_call = call, !.cur_tries = @ + 1,
              !.cur_ok = TRUE, !.last_exc = "",
              !.retried_after_ok = @ \/ c.cur_ok]

\* an attempt raised e
TriedRaise(c, call, e) ==
    [c EXCEPT !.called = @ \cup {call}, !.cur_call = call, !.cur_tries = @ + 1,
              !.cur_raised = @ + 1, !.last_exc = e,
              !.retried_after_ok = @ \/ c.cur_ok]

\* a caller of the marks operations makes at most MaxOps uncached calls
CanBegin(t) == th[t].pc = "idle" /\ ops < MaxOps

\* time passes
Tick ==
    /\ \A t \in Threads : th[t].pc \in {"idle", "get"}
    /\ now + TickStep <= MaxTime
    /\ now' = now + TickStep
    /\ UNCHANGED <<att_vars, cmd_vars, fn_vars, ses_vars, iv_vars, poll_vars, drv_vars, session, marks_cache, marks_cache_expiry, marks_data,
                   marks_semesters, marks_semester_data, marks_loading, th, ops,
                   cache_set_at, cache_stored, portal_semesters>>

\* lines 273-275: fetch_marks answered from the cache
FM_Hit(t) ==
    /\ th[t].pc = "idle"
    /\ IsCacheValid(K_latest)
    /\ th' = [th EXCEPT ![t] =
                 End([Begin("fetch_marks", <<>>, "idle") EXCEPT !.hit = TRUE],
                     Returned(marks_data))]
    /\ UNCHANGED <<att_vars, cmd_vars, fn_vars, ses_vars, iv_vars, poll_vars, drv_vars, now, session, marks_cache, marks_cache_expiry,
                   marks_data, marks_semesters, marks_semester_data,
                   marks_loading, ops, cache_set_at, cache_stored, portal_semesters>>

\* lines 422-424: fetch_marks_semesters answered from the cache
FS_Hit(t) ==
    /\ th[t].pc = "idle"
    /\ IsCacheValid(K_semesters)
    /\ th' = [th EXCEPT ![t] =
                 End([Begin("fetch_marks_semesters", <<>>, "idle") EXCEPT !.hit = TRUE],
                     Returned(marks_semesters))]
    /\ UNCHANGED <<att_vars, cmd_vars, fn_vars, ses_vars, iv_vars, poll_vars, drv_vars, now, session, marks_cache, marks_cache_expiry,
                   marks_data, marks_semesters, marks_semester_data,
                   marks_loading, ops, cache_set_at, cache_stored, portal_semesters>>

\* lines 600-604: fetch_marks_for_semester, called by itself or by
\* select_marks_semester (line 521), finds its key valid
FL_Hit(t) ==
    /\ th[t].pc \in {"idle", "select"}
    /\ \E semester \in Labels :
        /\ th[t].pc = "select" => semester = th[t].semester
        /\ IsCacheValid(K_semester(semester))
        /\ th' = [th EXCEPT ![t] =
                     [Begin("fetch_marks_for_semester", semester, "get")
                          EXCEPT !.hit = TRUE]]
    /\ UNCHANGED <<att_vars, cmd_vars, fn_vars, ses_vars, iv_vars, poll_vars, drv_vars, now, session, marks_cache, marks_cache_expiry,
                   marks_data, marks_semesters, marks_semester_data,
                   marks_loading, ops, cache_set_at, cache_stored, portal_semesters>>

\* line 605: return self._get_cache(cache_key), which tests validity again
FL_Get(t) ==
    /\ th[t].pc = "get"
    /\ th' = [th EXCEPT ![t] =
                 End(@, IF GetCache(K_semester(th[t].semester)) = None
                        THEN ReturnedNone
                        ELSE Returned(marks_cache[K_semester(th[t].semester)]))]
    /\ UNCHANGED <<att_vars, cmd_vars, fn_vars, ses_vars, iv_vars, poll_vars, drv_vars, now, session, marks_cache, marks_cache_expiry,
                   marks_data, marks_semesters, marks_semester_data,
                   marks_loading, ops, cache_set_at, cache_stored, portal_semesters>>

\* lines 273-277, 422-427, 603-608: the key is absent or expired
M_Miss(t) ==
    /\ th[t].pc \in {"idle", "select"}
    /\ \E op \in {"fetch_marks", "fetch_marks_semesters", "fetch_marks_for_semester"} :
       \E semester \in Labels :
        /\ op # "fetch_marks_for_semester" => semester = <<"N", "o">>
        /\ th[t].pc = "select" =>
               (op = "fetch_marks_for_semester" /\ semester = th[t].semester)
        /\ ~IsCacheValid(CASE op = "fetch_marks" -> K_latest
                           [] op = "fetch_marks_semesters" -> K_semesters
                           [] OTHER -> K_semester(semester))
        /\ th' = [th EXCEPT ![t] =
                     Begin(op, IF op = "fetch_marks_for_semester" THEN semester ELSE <<>>,
                           "login")]
    /\ marks_loading' = TRUE
    /\ ops' = ops + 1
    /\ UNCHANGED <<att_vars, cmd_vars, fn_vars, ses_vars, iv_vars, poll_vars, drv_vars, now, session, marks_cache, marks_cache_expiry,
                   marks_data, marks_semesters, marks_semester_data,
                   cache_set_at, cache_stored, portal_semesters>>

\* lines 86-93 with 279, 429, 610, 774: a session exists or login() succeeds
M_LoginOk(t) ==
    /\ th[t].pc = "login"
    /\ session' = "in"
    /\ th' = [th EXCEPT ![t] =
                 [(IF session = "in" THEN @ ELSE TriedOk(@, "login"))
                      EXCEPT !.pc = CASE th[t].op = "fetch_marks" -> "sgpa"
                                      [] th[t].op = "fetch_notices" -> "notices"
                                      [] OTHER -> "sems"]]
    /\ UNCHANGED <<att_vars, cmd_vars, fn_vars, ses_vars, iv_vars, poll_vars, drv_vars, now, marks_cache, marks_cache_expiry, marks_data,
                   marks_semesters, marks_semester_data, marks_loading, ops,
                   cache_set_at, cache_stored, portal_semesters>>

\* a failed login that lets the call go on
M_LoginFailGoesOn(t) ==
    /\ th[t].pc = "login"
    /\ session # "in"
    /\ session' = "out"
    /\ th' = [th EXCEPT ![t] =
                 [Tried(@, "login")
                      EXCEPT !.pc = CASE th[t].op = "fetch_marks" -> "sgpa"
                                      [] th[t].op = "fetch_notices" -> "notices"
                                      [] OTHER -> "sems"]]
    /\ UNCHANGED <<att_vars, cmd_vars, fn_vars, ses_vars, iv_vars, poll_vars, drv_vars, now, marks_cache,
                   marks_cache_expiry, marks_data, marks_semesters,
                   marks_semester_data, marks_loading, ops, cache_set_at,
                   cache_stored, portal_semesters>>

\* lines 279-280, 429-430, 610-611, 774-775 and the handlers at 353, 512,
\* 767, 788 (which leaves marks_loading alone): login() fails, LoginError
\* is raised
M_LoginFail(t) ==
    /\ th[t].pc = "login"
    /\ session # "in"
    /\ session' = "out"
    /\ th' = [th EXCEPT ![t] = End(Tried(@, "login"), Raised("LoginError"))]
    /\ marks_loading' = IF th[t].op = "fetch_notices" THEN marks_loading ELSE FALSE
    /\ UNCHANGED <<att_vars, cmd_vars, fn_vars, ses_vars, iv_vars, poll_vars, drv_vars, now, marks_cache, marks_cache_expiry, marks_data,
                   marks_semesters, marks_semester_data, ops,
                   cache_set_at, cache_stored, portal_semesters>>

\* lines 289-292: an attempt of get_sgpa_cgpa succeeds
FM_SgpaOk(t) ==
    /\ th[t].pc = "sgpa"
    /\ \E v \in SgpaCgpaValues :
        th' = [th EXCEPT ![t] =
                  [TriedOk(@, "sgpa") EXCEPT !.sgpa_cgpa_data = v, !.pc = "sems",
                                             !.attempt = 0]]
    /\ UNCHANGED <<att_vars, cmd_vars, fn_vars, ses_vars, iv_vars, poll_vars, drv_vars, now, session, marks_cache, marks_cache_expiry,
                   marks_data, marks_semesters, marks_semester_data,
                   marks_loading, ops, cache_set_at, cache_stored, portal_semesters>>

\* a retry loop that gives up without raising
FM_SgpaRaiseSwallowed(t) ==
    /\ th[t].pc = "sgpa"
    /\ \E e \in Exceptions :
        th' = [th EXCEPT ![t] =
                  IF @.attempt = MaxRetries - 1
                  THEN [TriedRaise(@, "sgpa", e) EXCEPT !.pc = "sems", !.attempt = 0]
                  ELSE [TriedRaise(@, "sgpa", e) EXCEPT !.attempt = @ + 1]]
    /\ UNCHANGED <<att_vars, cmd_vars, fn_vars, ses_vars, iv_vars, poll_vars, drv_vars, now, session, marks_cache, marks_cache_expiry,
                   marks_data, marks_semesters, marks_semester_data, marks_loading,
                   ops, cache_set_at, cache_stored, portal_semesters>>

\* lines 293-297 and 353-356: an attempt of get_sgpa_cgpa raises
FM_SgpaRaise(t) ==
    /\ th[t].pc = "sgpa"
    /\ \E e \in Exceptions :
        th' = [th EXCEPT ![t] =
                  IF @.attempt = MaxRetries - 1
                  THEN End(TriedRaise(@, "sgpa", e), Raised(e))
                  ELSE [TriedRaise(@, "sgpa", e) EXCEPT !.attempt = @ + 1]]
    /\ marks_loading' = IF th[t].attempt = MaxRetries - 1 THEN FALSE ELSE marks_loading
    /\ UNCHANGED <<att_vars, cmd_vars, fn_vars, ses_vars, iv_vars, poll_vars, drv_vars, now, session, marks_cache, marks_cache_expiry,
                   marks_data, marks_semesters, marks_semester_data, ops,
                   cache_set_at, cache_stored, portal_semesters>>

\* lines 300-303 and 318: an attempt of get_semesters_for_grade_card succeeds
FM_SemsOk(t) ==
    /\ th[t].pc = "sems"
    /\ th[t].op = "fetch_marks"
    /\ th' = [th EXCEPT ![t] =
                 [TriedOk(@, "sems") EXCEPT
                      !.pc = IF portal_semesters # <<>> THEN "grade" ELSE "store",
                      !.attempt = 0]]
    /\ UNCHANGED <<att_vars, cmd_vars, fn_vars, ses_vars, iv_vars, poll_vars, drv_vars, now, session, marks_cache, marks_cache_expiry,
                   marks_data, marks_semesters, marks_semester_data,
                   marks_loading, ops, cache_set_at, cache_stored, portal_semesters>>

\* lines 304-308 and 353-356: an attempt of get_semesters_for_grade_card raises
FM_SemsRaise(t) ==
    /\ th[t].pc = "sems"
    /\ th[t].op = "fetch_marks"
    /\ \E e \in Exceptions :
        th' = [th EXCEPT ![t] =
                  IF @.attempt = MaxRetries - 1
                  THEN End(TriedRaise(@, "sems", e), Raised(e))
                  ELSE [TriedRaise(@, "sems", e) EXCEPT !.attempt = @ + 1]]
    /\ marks_loading' = IF th[t].attempt = MaxRetries - 1 THEN FALSE ELSE marks_loading
    /\ UNCHANGED <<att_vars, cmd_vars, fn_vars, ses_vars, iv_vars, poll_vars, drv_vars, now, session, marks_cache, marks_cache_expiry,
                   marks_data, marks_semesters, marks_semester_data, ops,
                   cache_set_at, cache_stored, portal_semesters>>

\* lines 322-342: an attempt of get_grade_card succeeds
FM_GradeOk(t) ==
    /\ th[t].pc = "grade"
    /\ th[t].op = "fetch_marks"
    /\ \E grade_card \in GradeCards :
        th' = [th EXCEPT ![t] =
                  [TriedOk(@, "grade") EXCEPT !.subjects = LatestSubjects(grade_card),
                                              !.pc = "store", !.attempt = 0]]
    /\ UNCHANGED <<att_vars, cmd_vars, fn_vars, ses_vars, iv_vars, poll_vars, drv_vars, now, session, marks_cache, marks_cache_expiry,
                   marks_data, marks_semesters, marks_semester_data,
                   marks_loading, ops, cache_set_at, cache_stored, portal_semesters>>

\* lines 326-330 and 343-344: an attempt of get_grade_card raises; the
\* exception of the last attempt is caught at line 343 and only logged
FM_GradeRaise(t) ==
    /\ th[t].pc = "grade"
    /\ th[t].op = "fetch_marks"
    /\ \E e \in Exceptions :
        th' = [th EXCEPT ![t] =
                  IF @.attempt = MaxRetries - 1
                  THEN [TriedRaise(@, "grade", e) EXCEPT !.pc = "store", !.attempt = 0]
                  ELSE [TriedRaise(@, "grade", e) EXCEPT !.attempt = @ + 1]]
    /\ UNCHANGED <<att_vars, cmd_vars, fn_vars, ses_vars, iv_vars, poll_vars, drv_vars, now, session, marks_cache, marks_cache_expiry,
                   marks_data, marks_semesters, marks_semester_data,
                   marks_loading, ops, cache_set_at, cache_stored, portal_semesters>>

\* lines 310-316 and 346-351: the snapshot is stored, cached and returned
FM_Store(t) ==
    /\ th[t].pc = "store"
    /\ th[t].op = "fetch_marks"
    /\ LET data == LatestMarks(th[t].sgpa_cgpa_data, th[t].subjects) IN
        /\ marks_data' = data
        /\ marks_cache' = SetCacheValue(marks_cache, K_latest, data)
        /\ marks_cache_expiry' = SetCacheExpiry(marks_cache_expiry, K_latest)
        /\ cache_set_at' = DictPut(cache_set_at, K_latest, now)
        /\ cache_stored' = DictPut(cache_stored, K_latest, data)
        /\ th' = [th EXCEPT ![t] = End(@, Returned(data))]
    /\ marks_loading' = FALSE
    /\ UNCHANGED <<att_vars, cmd_vars, fn_vars, ses_vars, iv_vars, poll_vars, drv_vars, now, session, marks_semesters, marks_semester_data,
                   ops, portal_semesters>>

\* lines 437-510: fetch_marks_semesters gets the list, from
\* get_semesters_for_marks or, after an AttributeError, from
\* get_semesters_for_grade_card, derives the names and stores them
FS_SemsOk(t) ==
    /\ th[t].pc = "sems"
    /\ th[t].op = "fetch_marks_semesters"
    /\ LET semester_names == SemesterNames(portal_semesters) IN
        /\ marks_semesters' = semester_names
        /\ marks_cache' = SetCacheValue(marks_cache, K_semesters, semester_names)
        /\ cache_stored' = DictPut(cache_stored, K_semesters, semester_names)
        /\ th' = [th EXCEPT ![t] =
                     End(TriedOk(@, "sems"), Returned(semester_names))]
    /\ marks_cache_expiry' = SetCacheExpiry(marks_cache_expiry, K_semesters)
    /\ cache_set_at' = DictPut(cache_set_at, K_semesters, now)
    /\ marks_loading' = FALSE
    /\ UNCHANGED <<att_vars, cmd_vars, fn_vars, ses_vars, iv_vars, poll_vars, drv_vars, now, session, marks_data, marks_semester_data, ops,
                   portal_semesters>>

\* lines 437-443 and 512-515: the list call raises (anything but the
\* AttributeError of a missing get_semesters_for_marks): raised at once
FS_SemsRaise(t) ==
    /\ th[t].pc = "sems"
    /\ th[t].op = "fetch_marks_semesters"
    /\ \E e \in Exceptions :
        th' = [th EXCEPT ![t] = End(TriedRaise(@, "sems", e), Raised(e))]
    /\ marks_loading' = FALSE
    /\ UNCHANGED <<att_vars, cmd_vars, fn_vars, ses_vars, iv_vars, poll_vars, drv_vars, now, session, marks_cache, marks_cache_expiry,
                   marks_data, marks_semesters, marks_semester_data, ops,
                   cache_set_at, cache_stored, portal_semesters>>

\* lines 619-697: fetch_marks_for_semester gets the list and looks for the
\* object of the requested label; ValueError when there is none
FL_SemsOk(t) ==
    /\ th[t].pc = "sems"
    /\ th[t].op = "fetch_marks_for_semester"
    /\ LET target == TargetSemester(portal_semesters, th[t].semester)
           c == [TriedOk(th[t], "sems") EXCEPT !.target = target] IN
        /\ th' = [th EXCEPT ![t] =
                     IF target = 0 THEN End(c, Raised("ValueError"))
                     ELSE [c EXCEPT !.pc = "grade", !.attempt = 0]]
        /\ marks_loading' = IF target = 0 THEN FALSE ELSE marks_loading
    /\ UNCHANGED <<att_vars, cmd_vars, fn_vars, ses_vars, iv_vars, poll_vars, drv_vars, now, session, marks_cache, marks_cache_expiry,
                   marks_data, marks_semesters, marks_semester_data, ops,
                   cache_set_at, cache_stored, portal_semesters>>

\* lines 619-626 and 767-770: the list call raises: raised at once
FL_SemsRaise(t) ==
    /\ th[t].pc = "sems"
    /\ th[t].op = "fetch_marks_for_semester"
    /\ \E e \in Exceptions :
        th' = [th EXCEPT ![t] = End(TriedRaise(@, "sems", e), Raised(e))]
    /\ marks_loading' = FALSE
    /\ UNCHANGED <<att_vars, cmd_vars, fn_vars, ses_vars, iv_vars, poll_vars, drv_vars, now, session, marks_cache, marks_cache_expiry,
                   marks_data, marks_semesters, marks_semester_data, ops,
                   cache_set_at, cache_stored, portal_semesters>>

\* a grade-card step that goes on to the PDF whatever the grade card held
FL_GradeOkAlwaysPdf(t) ==
    /\ th[t].pc = "grade"
    /\ th[t].op = "fetch_marks_for_semester"
    /\ \E grade_card \in { g \in GradeCards : GradeCardTruthy(g) } :
        th' = [th EXCEPT ![t] =
                  [TriedOk(@, "grade") EXCEPT
                       !.card = grade_card,
                       !.subjects = SemesterSubjects(grade_card),
                       !.pc = "pdf",
                       !.attempt = 0]]
    /\ UNCHANGED <<att_vars, cmd_vars, fn_vars, ses_vars, iv_vars, poll_vars, drv_vars, now, session, marks_cache, marks_cache_expiry,
                   marks_data, marks_semesters, marks_semester_data,
                   marks_loading, ops, cache_set_at, cache_stored, portal_semesters>>

\* lines 702-708 and 724-738: an attempt of get_grade_card returns a truthy
\* grade card; the loop ends and the subjects are read
FL_GradeOk(t) ==
    /\ th[t].pc = "grade"
    /\ th[t].op = "fetch_marks_for_semester"
    /\ \E grade_card \in { g \in GradeCards : GradeCardTruthy(g) } :
        th' = [th EXCEPT ![t] =
                  [TriedOk(@, "grade") EXCEPT
                       !.card = grade_card,
                       !.subjects = SemesterSubjects(grade_card),
                       !.pc = IF SemesterSubjects(grade_card) = EmptyDict
                              THEN "pdf" ELSE "store",
                       !.attempt = 0]]
    /\ UNCHANGED <<att_vars, cmd_vars, fn_vars, ses_vars, iv_vars, poll_vars, drv_vars, now, session, marks_cache, marks_cache_expiry,
                   marks_data, marks_semesters, marks_semester_data,
                   marks_loading, ops, cache_set_at, cache_stored, portal_semesters>>

\* lines 702-710: an attempt of get_grade_card returns a falsy value; the
\* loop goes on to its next attempt, after the last one without a grade card
FL_GradeEmpty(t) ==
    /\ th[t].pc = "grade"
    /\ th[t].op = "fetch_marks_for_semester"
    /\ th' = [th EXCEPT ![t] =
                 IF @.attempt = MaxRetries - 1
                 THEN [TriedOk(@, "grade") EXCEPT !.pc = "pdf", !.attempt = 0]
                 ELSE [TriedOkAgain(@, "grade") EXCEPT !.attempt = @ + 1]]
    /\ UNCHANGED <<att_vars, cmd_vars, fn_vars, ses_vars, iv_vars, poll_vars, drv_vars, now, session, marks_cache, marks_cache_expiry,
                   marks_data, marks_semesters, marks_semester_data,
                   marks_loading, ops, cache_set_at, cache_stored, portal_semesters>>

\* lines 711-716 and 767-770: an attempt of get_grade_card raises
FL_GradeRaise(t) ==
    /\ th[t].pc = "grade"
    /\ th[t].op = "fetch_marks_for_semester"
    /\ \E e \in Exceptions :
        th' = [th EXCEPT ![t] =
                  IF @.attempt = MaxRetries - 1
                  THEN End(TriedRaise(@, "grade", e), Raised(e))
                  ELSE [TriedRaise(@, "grade", e) EXCEPT !.attempt = @ + 1]]
    /\ marks_loading' = IF th[t].attempt = MaxRetries - 1 THEN FALSE ELSE marks_loading
    /\ UNCHANGED <<att_vars, cmd_vars, fn_vars, ses_vars, iv_vars, poll_vars, drv_vars, now, session, marks_cache, marks_cache_expiry,
                   marks_data, marks_semesters, marks_semester_data, ops,
                   cache_set_at, cache_stored, portal_semesters>>

\* a PDF fallback that lets the exception of the download through
FL_PdfUncaught(t) ==
    /\ th[t].pc = "pdf"
    /\ \E outcome \in PdfOutcomes :
        th' = [th EXCEPT ![t] =
                  IF outcome.kind = "download_raises"
                  THEN End([Tried(@, "pdf") EXCEPT !.pdf = outcome], Raised("Exception"))
                  ELSE [Tried(@, "pdf") EXCEPT !.pdf = outcome,
                                               !.subjects = PdfSubjects(outcome),
                                               !.pc = "store"]]
    /\ UNCHANGED <<att_vars, cmd_vars, fn_vars, ses_vars, iv_vars, poll_vars, drv_vars, now, session, marks_cache, marks_cache_expiry,
                   marks_data, marks_semesters, marks_semester_data,
                   marks_loading, ops, cache_set_at, cache_stored, portal_semesters>>

\* lines 738-756: the PDF fallback, whose failures are only logged
FL_Pdf(t) ==
    /\ th[t].pc = "pdf"
    /\ \E outcome \in PdfOutcomes :
        th' = [th EXCEPT ![t] =
                  [Tried(@, "pdf") EXCEPT !.pdf = outcome,
                                          !.subjects = PdfSubjects(outcome),
                                          !.pc = "store"]]
    /\ UNCHANGED <<att_vars, cmd_vars, fn_vars, ses_vars, iv_vars, poll_vars, drv_vars, now, session, marks_cache, marks_cache_expiry,
                   marks_data, marks_semesters, marks_semester_data,
                   marks_loading, ops, cache_set_at, cache_stored, portal_semesters>>

\* lines 718-722 and 758-765: the snapshot is stored under the label in
\* self.marks_data, cached and returned.  self.marks_data is the very dict
\* fetch_marks cached under 'latest_marks' (lines 346-347), so the new key
\* shows in that cache entry as well.
FL_Store(t) ==
    /\ th[t].pc = "store"
    /\ th[t].op = "fetch_marks_for_semester"
    /\ LET data == SemesterMarks(th[t].semester, th[t].subjects)
           cache_key == K_semester(th[t].semester)
           shared == DictPut(marks_data, th[t].semester, data) IN
        /\ marks_semester_data' = Some(data)
        /\ marks_data' = shared
        /\ marks_cache' =
               SetCacheValue(IF K_latest \in DOMAIN marks_cache
                             THEN DictPut(marks_cache, K_latest, shared)
                             ELSE marks_cache,
                             cache_key, data)
        /\ marks_cache_expiry' = SetCacheExpiry(marks_cache_expiry, cache_key)
        /\ cache_set_at' = DictPut(cache_set_at, cache_key, now)
        /\ cache_stored' = DictPut(cache_stored, cache_key, data)
        /\ th' = [th EXCEPT ![t] = End(@, Returned(data))]
    /\ marks_loading' = FALSE
    /\ UNCHANGED <<att_vars, cmd_vars, fn_vars, ses_vars, iv_vars, poll_vars, drv_vars, now, session, marks_semesters, ops, portal_semesters>>

\* the steps of thread t
ThreadStep(t) ==
    \/ FM_Hit(t)
    \/ FS_Hit(t)
    \/ FL_Hit(t)
    \/ FL_Get(t)
    \/ CanBegin(t) /\ M_Miss(t)
    \/ M_LoginOk(t)
    \/ M_LoginFail(t)
    \/ FM_SgpaOk(t)
    \/ FM_SgpaRaise(t)
    \/ FM_SemsOk(t)
    \/ FM_SemsRaise(t)
    \/ FM_GradeOk(t)
    \/ FM_GradeRaise(t)
    \/ FM_Store(t)
    \/ FS_SemsOk(t)
    \/ FS_SemsRaise(t)
    \/ FL_SemsOk(t)
    \/ FL_SemsRaise(t)
    \/ FL_GradeOk(t)
    \/ FL_GradeEmpty(t)
    \/ FL_GradeRaise(t)
    \/ FL_Pdf(t)
    \/ FL_Store(t)

(***************************************************************************)
(* select_marks_semester and get_current_marks, as marks_command of        *)
(* telegram_notifier.py uses them: the label is selected, the semester is  *)
(* fetched, then the current marks are read.                               *)
(***************************************************************************)
\* lines 517-523: a label of the list is selected and its fetch begins; any
\* other label is only logged
SEL_Select(t) ==
    /\ th[t].pc = "idle"
    /\ sel_pc = "fetch" => th[t].ret.kind = "raise"
    /\ \E semester \in Labels :
        IF \E i \in 1..Len(marks_semesters) : marks_semesters[i] = semester
        THEN /\ selected_marks_sem' = Some(semester)
             /\ sel_pc' = "fetch"
             /\ cmd_marks' = NoReturn
             /\ th' = [th EXCEPT ![t] = Begin("select_marks_semester", semester, "select")]
        ELSE /\ sel_pc' = "idle"
             /\ UNCHANGED <<selected_marks_sem, cmd_marks, th>>
    /\ UNCHANGED <<att_vars, poll_vars, drv_vars, fn_vars, ses_vars, iv_vars, now, session, marks_cache,
                   marks_cache_expiry, marks_data, marks_semesters,
                   marks_semester_data, marks_loading, ops, cache_set_at,
                   cache_stored, portal_semesters>>

\* the value get_current_marks returns (lines 526-528)
CurrentMarks ==
    IF /\ selected_marks_sem # None
       /\ Value(selected_marks_sem) # <<>>
       /\ Value(selected_marks_sem) \in DOMAIN marks_data
    THEN Returned(marks_data[Value(selected_marks_sem)])
    ELSE ReturnedNone

\* telegram_notifier.py lines 245-246: select_marks_semester returned
\* without error and get_current_marks is called
GCM(t) ==
    /\ sel_pc = "fetch"
    /\ th[t].pc = "idle"
    /\ th[t].ret.kind \in {"value", "value_none"}
    /\ cmd_marks' = CurrentMarks
    /\ sel_pc' = "got"
    /\ UNCHANGED <<att_vars, marks_vars, poll_vars, drv_vars, fn_vars, ses_vars, iv_vars, selected_marks_sem>>

(***************************************************************************)
(* fetch_notices: the login test, then one notice made on the spot whose   *)
(* id is 'notice_' followed by the whole seconds of the clock.  The id is  *)
(* modelled by those seconds.                                              *)
(***************************************************************************)
Notice(t) == [id |-> t, title |-> "Portal Data Available", type |-> "system"]

\* line 773: the call begins with the login test
N_Begin(t) ==
    /\ th[t].pc = "idle"
    /\ th' = [th EXCEPT ![t] = Begin("fetch_notices", <<>>, "login")]
    /\ UNCHANGED <<att_vars, cmd_vars, fn_vars, ses_vars, iv_vars, poll_vars, drv_vars, now, session, marks_cache,
                   marks_cache_expiry, marks_data, marks_semesters,
                   marks_semester_data, marks_loading, ops, cache_set_at,
                   cache_stored, portal_semesters>>

\* lines 777-787: the list with the one notice is returned
N_Return(t) ==
    /\ th[t].pc = "notices"
    /\ th' = [th EXCEPT ![t] = End(@, Returned(<<Notice(now)>>))]
    /\ UNCHANGED <<att_vars, cmd_vars, fn_vars, ses_vars, iv_vars, poll_vars, drv_vars, now, session, marks_cache,
                   marks_cache_expiry, marks_data, marks_semesters,
                   marks_semester_data, marks_loading, ops, cache_set_at,
                   cache_stored, portal_semesters>>

(***************************************************************************)
(* check_for_changes, run by the polling thread: fetch_attendance, then    *)
(* fetch_marks, then fetch_notices, then the comparisons and the three     *)
(* assignments.  An empty dict {} is None, the empty list is <<>>.         *)
(***************************************************************************)
DefaultThreshold == 75

Thresholds == {DefaultThreshold, 70}

MaxCycles == 3


NoCurrent == [attendance |-> None, marks |-> None, notices |-> <<>>]

NoPrev ==
    [percentage |-> None, cgpa |-> None, notice_ids |-> {},
     attendance |-> None, marks |-> None]

PollInit ==
    /\ cc_pc = "idle"
    /\ cc_current = NoCurrent
    /\ cc_ret = NoReturn
    /\ last_attendance_data = None
    /\ last_marks_data = None
    /\ last_notices = <<>>
    /\ cc_prev = NoPrev
    /\ cycles = 0
    /\ attendance_threshold \in Thresholds

\* line 809: "if self.last_attendance_data:" is false for {}
AttendanceChangedUnguarded(current_attendance, last) ==
    IF last = None THEN TRUE
    ELSE current_attendance.attendance_percentage # Value(last).attendance_percentage

\* lines 809-811
AttendanceChanged(current_attendance, last) ==
    /\ last # None
    /\ current_attendance.attendance_percentage # Value(last).attendance_percentage

\* a comparison of the whole snapshot
MarksChangedAnyField(current_marks, last) ==
    /\ last # None
    /\ current_marks # Value(last)

\* lines 817-819
MarksChanged(current_marks, last) ==
    /\ last # None
    /\ current_marks[<<"cgpa">>] # Value(last)[<<"cgpa">>]

\* "at or below"
BelowOrAtThreshold(percentage, threshold) ==
    percentage[1] <= threshold * percentage[2]

\* line 814: percentage < threshold, on fractions
BelowThreshold(percentage, threshold) ==
    percentage[1] < threshold * percentage[2]

NoticeIds(notices) == { notices[i].id : i \in 1..Len(notices) }

\* every current notice
NewNoticesAll(current_notices, last) == current_notices

\* lines 821-829
NewNotices(current_notices, last) ==
    LET new_notice_ids == NoticeIds(current_notices) \ NoticeIds(last) IN
    IF new_notice_ids # {}
    THEN SelectSeq(current_notices, LAMBDA notice : notice.id \in new_notice_ids)
    ELSE <<>>

\* lines 793-832: the report
Changes(current_attendance, current_marks, current_notices) ==
    [attendance_changed |-> AttendanceChanged(current_attendance, last_attendance_data),
     marks_changed |-> MarksChanged(current_marks, last_marks_data),
     new_notices |-> NewNotices(current_notices, last_notices),
     attendance_below_threshold |->
         BelowThreshold(current_attendance.attendance_percentage, attendance_threshold),
     current_data |-> [attendance |-> current_attendance, marks |-> current_marks,
                       notices |-> current_notices]]

\* fetch_attendance keeps nothing between calls
AttReset ==
    /\ att_pc' = "idle"
    /\ att_records' = <<>>
    /\ basic_subjects' = EmptyDict
    /\ basic_order' = <<>>
    /\ att_idx' = 1
    /\ enhanced_subjects' = EmptyDict
    /\ total_classes' = 0
    /\ total_attended' = 0
    /\ att_detail' = NoDetail
    /\ att_ret' = NoReturn

\* line 801: the call begins
CC_Begin ==
    /\ cc_pc = "idle"
    /\ cycles < MaxCycles
    /\ att_pc = "idle"
    /\ th["poll"].pc = "idle"
    /\ cc_pc' = "attendance"
    /\ cc_current' = NoCurrent
    /\ cc_ret' = NoReturn
    /\ cc_prev' = [percentage |-> { d.attendance_percentage : d \in last_attendance_data },
                   cgpa |-> { d[<<"cgpa">>] : d \in last_marks_data },
                   notice_ids |-> NoticeIds(last_notices),
                   attendance |-> last_attendance_data,
                   marks |-> last_marks_data]
    /\ cycles' = cycles + 1
    /\ th' = [th EXCEPT !["poll"] = IdleThread]
    /\ UNCHANGED <<att_vars, cmd_vars, fn_vars, ses_vars, iv_vars, drv_vars, now, session, marks_cache, marks_cache_expiry,
                   marks_data, marks_semesters, marks_semester_data, marks_loading,
                   ops, cache_set_at, cache_stored, portal_semesters,
                   last_attendance_data, last_marks_data, last_notices,
                   attendance_threshold>>

\* lines 801 and 834-836: fetch_attendance raised
CC_AttendanceRaised ==
    /\ cc_pc = "attendance"
    /\ att_pc = "done"
    /\ att_ret.kind = "raise"
    /\ cc_ret' = att_ret
    /\ cc_pc' = "idle"
    /\ AttReset
    /\ UNCHANGED <<marks_vars, drv_vars, cmd_vars, fn_vars, ses_vars, iv_vars, cc_current, last_attendance_data,
                   last_marks_data, last_notices, cc_prev, cycles,
                   attendance_threshold>>

\* line 801: fetch_attendance returned
CC_AttendanceReturned ==
    /\ cc_pc = "attendance"
    /\ att_pc = "done"
    /\ att_ret.kind = "value"
    /\ cc_current' = [cc_current EXCEPT !.attendance = Some(att_ret.value[1])]
    /\ cc_pc' = "marks"
    /\ AttReset
    /\ UNCHANGED <<marks_vars, drv_vars, cmd_vars, fn_vars, ses_vars, iv_vars, cc_ret, last_attendance_data,
                   last_marks_data, last_notices, cc_prev, cycles,
                   attendance_threshold>>

\* fetch_marks returned, and the attendance snapshot is stored at once
CC_MarksReturnedAndStored ==
    /\ cc_pc = "marks"
    /\ th["poll"].pc = "idle"
    /\ th["poll"].ret.kind = "value"
    /\ cc_current' = [cc_current EXCEPT !.marks = Some(th["poll"].ret.value[1])]
    /\ last_attendance_data' = cc_current.attendance
    /\ cc_pc' = "notices"
    /\ th' = [th EXCEPT !["poll"] = IdleThread]
    /\ UNCHANGED <<att_vars, cmd_vars, fn_vars, ses_vars, iv_vars, drv_vars, now, session, marks_cache, marks_cache_expiry,
                   marks_data, marks_semesters, marks_semester_data, marks_loading,
                   ops, cache_set_at, cache_stored, portal_semesters, cc_ret,
                   last_marks_data, last_notices, cc_prev,
                   cycles, attendance_threshold>>

\* line 802: fetch_marks returned
CC_MarksReturned ==
    /\ cc_pc = "marks"
    /\ th["poll"].pc = "idle"
    /\ th["poll"].ret.kind = "value"
    /\ cc_current' = [cc_current EXCEPT !.marks = Some(th["poll"].ret.value[1])]
    /\ cc_pc' = "notices"
    /\ th' = [th EXCEPT !["poll"] = IdleThread]
    /\ UNCHANGED <<att_vars, cmd_vars, fn_vars, ses_vars, iv_vars, drv_vars, now, session, marks_cache, marks_cache_expiry,
                   marks_data, marks_semesters, marks_semester_data, marks_loading,
                   ops, cache_set_at, cache_stored, portal_semesters, cc_ret,
                   last_attendance_data, last_marks_data, last_notices, cc_prev,
                   cycles, attendance_threshold>>

\* lines 802-803 and 834-836: fetch_marks or fetch_notices raised
CC_FetchRaised ==
    /\ cc_pc \in {"marks", "notices"}
    /\ th["poll"].pc = "idle"
    /\ th["poll"].ret.kind = "raise"
    /\ cc_ret' = Raised(th["poll"].ret.exc)
    /\ cc_pc' = "idle"
    /\ th' = [th EXCEPT !["poll"] = IdleThread]
    /\ UNCHANGED <<att_vars, cmd_vars, fn_vars, ses_vars, iv_vars, drv_vars, now, session, marks_cache, marks_cache_expiry,
                   marks_data, marks_semesters, marks_semester_data, marks_loading,
                   ops, cache_set_at, cache_stored, portal_semesters, cc_current,
                   last_attendance_data, last_marks_data, last_notices, cc_prev,
                   cycles, attendance_threshold>>

\* lines 803-833: fetch_notices returned; the comparisons, the three
\* assignments and the return
CC_Report ==
    /\ cc_pc = "notices"
    /\ th["poll"].pc = "idle"
    /\ th["poll"].ret.kind = "value"
    /\ LET current_attendance == Value(cc_current.attendance)
           current_marks == Value(cc_current.marks)
           current_notices == th["poll"].ret.value[1] IN
        /\ cc_ret' = Returned(Changes(current_attendance, current_marks,
                                      current_notices))
        /\ last_attendance_data' = Some(current_attendance)
        /\ last_marks_data' = Some(current_marks)
        /\ last_notices' = current_notices
        /\ cc_current' = [cc_current EXCEPT !.notices = current_notices]
    /\ cc_pc' = "idle"
    /\ th' = [th EXCEPT !["poll"] = IdleThread]
    /\ UNCHANGED <<att_vars, cmd_vars, fn_vars, ses_vars, iv_vars, drv_vars, now, session, marks_cache, marks_cache_expiry,
                   marks_data, marks_semesters, marks_semester_data, marks_loading,
                   ops, cache_set_at, cache_stored, portal_semesters, cc_prev,
                   cycles, attendance_threshold>>

(***************************************************************************)
(* Specifications.                                                         *)
(***************************************************************************)
(***************************************************************************)
(* periodic_check of main.py, the loop of the polling thread.  A cycle is  *)
(* one pass of the loop: the login test, check_for_changes, then the wait  *)
(* for the next cycle.  time.sleep(d) moves the clock by d.                *)
(***************************************************************************)
MaxFailures == 3

FailureSleep == 300

Slice == 30

\* seconds of CHECK_INTERVAL_MINUTES: 1 at the start, 5 after /interval 5
StartInterval == 60

CommandInterval == 300

DrvInit ==
    /\ drv_pc = "top"
    /\ running = TRUE
    /\ consecutive_failures = 0
    /\ check_interval = 0
    /\ env_interval = StartInterval
    /\ sleep_start_time = 0
    /\ last_sleep = 0
    /\ failed_streak = 0
    /\ notified = ""
    /\ drv_cycles = 0
    /\ alert_cycles = {}
    /\ failed_cycles = 0

\* a notification after two failures
NotifiesFromTwo(failures) == failures >= MaxFailures - 1

\* lines 121 and 159: consecutive_failures >= max_failures
Notifies(failures) == failures >= MaxFailures

\* lines 118-130 and 156-170: the counter goes up, the notification is sent
\* when the counter reached max_failures (send_message_sync swallows its
\* own errors) and the counter is reset, then the thread sleeps 300 s
FailedCycle(message) ==
    /\ consecutive_failures' =
           IF Notifies(consecutive_failures + 1) THEN 0 ELSE consecutive_failures + 1
    /\ notified' = IF Notifies(consecutive_failures + 1) THEN message ELSE ""
    /\ failed_streak' = failed_streak + 1
    /\ failed_cycles' =
           IF Notifies(consecutive_failures + 1) THEN 0 ELSE failed_cycles + 1
    /\ now' = now + FailureSleep
    /\ last_sleep' = FailureSleep
    /\ drv_pc' = "top"

\* lines 107-109: the loop test passes and the interval is read
P_Top ==
    /\ drv_pc = "top"
    /\ running
    /\ drv_cycles < MaxCycles
    /\ drv_cycles' = drv_cycles + 1
    /\ check_interval' = env_interval
    /\ notified' = ""
    /\ failed_streak' = IF notified # "" THEN 0 ELSE failed_streak
    /\ drv_pc' = "login"
    /\ UNCHANGED <<att_vars, cmd_vars, fn_vars, ses_vars, iv_vars, marks_vars, poll_vars, running, consecutive_failures,
                   env_interval, sleep_start_time, last_sleep,
                   failed_cycles, alert_cycles>>

\* line 107: the loop test fails
P_Exit ==
    /\ drv_pc = "top"
    /\ ~running
    /\ drv_pc' = "stopped"
    /\ UNCHANGED <<att_vars, cmd_vars, fn_vars, ses_vars, iv_vars, marks_vars, poll_vars, running, consecutive_failures,
                   check_interval, env_interval, sleep_start_time, last_sleep,
                   failed_streak, notified, drv_cycles, alert_cycles,
                   failed_cycles>>

\* lines 117-131: ensure_logged_in() is False
P_LoginFalse ==
    /\ drv_pc = "login"
    /\ session # "in"
    /\ session' = "out"
    /\ FailedCycle("Portal Connection Issues")
    /\ UNCHANGED <<att_vars, cmd_vars, fn_vars, ses_vars, iv_vars, poll_vars, marks_cache, marks_cache_expiry, marks_data,
                   marks_semesters, marks_semester_data, marks_loading, th, ops,
                   cache_set_at, cache_stored, portal_semesters, running,
                   check_interval, env_interval, sleep_start_time, drv_cycles, alert_cycles>>

\* lines 117 and 155-170 with lines 82-84 of jiit_checker.py: login() raised
\* inside ensure_logged_in(), the handler of the loop takes over
P_LoginRaises ==
    /\ drv_pc = "login"
    /\ session # "in"
    /\ session' = "out"
    /\ FailedCycle("Monitoring Error")
    /\ UNCHANGED <<att_vars, cmd_vars, fn_vars, ses_vars, iv_vars, poll_vars, marks_cache, marks_cache_expiry, marks_data,
                   marks_semesters, marks_semester_data, marks_loading, th, ops,
                   cache_set_at, cache_stored, portal_semesters, running,
                   check_interval, env_interval, sleep_start_time, drv_cycles, alert_cycles>>

\* lines 117 and 133: ensure_logged_in() is True, the counter is reset
P_LoginTrue ==
    /\ drv_pc = "login"
    /\ session' = "in"
    /\ consecutive_failures' = 0
    /\ failed_streak' = 0
    /\ cc_ret' = NoReturn
    /\ drv_pc' = "check"
    /\ UNCHANGED <<att_vars, cmd_vars, fn_vars, ses_vars, iv_vars, now, marks_cache, marks_cache_expiry, marks_data,
                   marks_semesters, marks_semester_data, marks_loading, th, ops,
                   cache_set_at, cache_stored, portal_semesters, cc_pc, cc_current,
                   last_attendance_data, last_marks_data, last_notices, cc_prev,
                   cycles, attendance_threshold, running, check_interval,
                   env_interval, sleep_start_time, last_sleep, notified, drv_cycles, alert_cycles,
                   failed_cycles>>

\* lines 135 and 155-170: check_for_changes raised
P_CheckRaised ==
    /\ drv_pc = "check"
    /\ cc_pc = "idle"
    /\ cc_ret.kind = "raise"
    /\ FailedCycle("Monitoring Error")
    /\ UNCHANGED <<att_vars, cmd_vars, fn_vars, ses_vars, iv_vars, poll_vars, session, marks_cache, marks_cache_expiry,
                   marks_data, marks_semesters, marks_semester_data, marks_loading,
                   th, ops, cache_set_at, cache_stored, portal_semesters, running,
                   check_interval, env_interval, sleep_start_time, drv_cycles, alert_cycles>>

\* an alert only when the attendance moved since the last cycle
AlertOnChange(changes) ==
    changes.attendance_below_threshold /\ changes.attendance_changed

\* line 137: if changes['attendance_below_threshold']
AlertDue(changes) == changes.attendance_below_threshold

\* lines 135-147: check_for_changes returned, the alert is sent when it is
\* due (send_attendance_alert keeps its own errors, telegram_notifier.py
\* lines 76-114), the wait begins
P_CheckReturned ==
    /\ drv_pc = "check"
    /\ cc_pc = "idle"
    /\ cc_ret.kind = "value"
    /\ alert_cycles' = IF AlertDue(cc_ret.value[1])
                       THEN alert_cycles \cup {drv_cycles}
                       ELSE alert_cycles
    /\ sleep_start_time' = now
    /\ drv_pc' = "wait"
    /\ failed_cycles' = 0
    /\ UNCHANGED <<att_vars, cmd_vars, fn_vars, ses_vars, iv_vars, marks_vars, poll_vars, running, consecutive_failures,
                   check_interval, env_interval, last_sleep, failed_streak,
                   notified, drv_cycles>>

\* line 148: the flag is down or the interval has passed
P_WaitOver ==
    /\ drv_pc = "wait"
    /\ ~(running /\ now - sleep_start_time < check_interval)
    /\ drv_pc' = "top"
    /\ UNCHANGED <<att_vars, cmd_vars, fn_vars, ses_vars, iv_vars, marks_vars, poll_vars, running, consecutive_failures,
                   check_interval, env_interval, sleep_start_time, last_sleep,
                   failed_streak, notified, drv_cycles, alert_cycles,
                   failed_cycles>>

\* lines 149-152: the interval of the environment is no longer the one read
\* at the top of the cycle
P_WaitIntervalChanged ==
    /\ drv_pc = "wait"
    /\ running /\ now - sleep_start_time < check_interval
    /\ env_interval # check_interval
    /\ drv_pc' = "top"
    /\ UNCHANGED <<att_vars, cmd_vars, fn_vars, ses_vars, iv_vars, marks_vars, poll_vars, running, consecutive_failures,
                   check_interval, env_interval, sleep_start_time, last_sleep,
                   failed_streak, notified, drv_cycles, alert_cycles,
                   failed_cycles>>

\* a slice slept without looking at the interval of the environment
P_WaitSliceUnseen ==
    /\ drv_pc = "wait"
    /\ running /\ now - sleep_start_time < check_interval
    /\ LET remaining == check_interval - (now - sleep_start_time)
           d == IF Slice < remaining THEN Slice ELSE remaining IN
        /\ now' = now + d
        /\ last_sleep' = d
    /\ UNCHANGED <<att_vars, cmd_vars, fn_vars, ses_vars, iv_vars, poll_vars, session, marks_cache, marks_cache_expiry,
                   marks_data, marks_semesters, marks_semester_data, marks_loading,
                   th, ops, cache_set_at, cache_stored, portal_semesters, drv_pc,
                   running, consecutive_failures, check_interval, env_interval,
                   sleep_start_time, failed_streak, notified, drv_cycles, alert_cycles,
                   failed_cycles>>

\* line 153: time.sleep(min(30, check_interval - elapsed))
P_WaitSlice ==
    /\ drv_pc = "wait"
    /\ running /\ now - sleep_start_time < check_interval
    /\ env_interval = check_interval
    /\ LET remaining == check_interval - (now - sleep_start_time)
           d == IF Slice < remaining THEN Slice ELSE remaining IN
        /\ now' = now + d
        /\ last_sleep' = d
    /\ UNCHANGED <<att_vars, cmd_vars, fn_vars, ses_vars, iv_vars, poll_vars, session, marks_cache, marks_cache_expiry,
                   marks_data, marks_semesters, marks_semester_data, marks_loading,
                   th, ops, cache_set_at, cache_stored, portal_semesters, drv_pc,
                   running, consecutive_failures, check_interval, env_interval,
                   sleep_start_time, failed_streak, notified, drv_cycles, alert_cycles,
                   failed_cycles>>

\* telegram_notifier.py line 314: /interval 5 rewrites the environment
SetInterval ==
    /\ env_interval # CommandInterval
    /\ env_interval' = CommandInterval
    /\ UNCHANGED <<att_vars, cmd_vars, fn_vars, ses_vars, iv_vars, marks_vars, poll_vars, drv_pc, running,
                   consecutive_failures, check_interval, sleep_start_time,
                   last_sleep, failed_streak, notified, drv_cycles, alert_cycles,
                   failed_cycles>>

\* main.py lines 173-180 with cleanup (jiit_checker.py lines 875-880): a
\* signal takes the flag down and drops the session
Signal ==
    /\ running
    /\ running' = FALSE
    /\ session' = "none"
    /\ UNCHANGED <<att_vars, cmd_vars, fn_vars, ses_vars, iv_vars, poll_vars, now, marks_cache, marks_cache_expiry,
                   marks_data, marks_semesters, marks_semester_data, marks_loading,
                   th, ops, cache_set_at, cache_stored, portal_semesters, drv_pc,
                   consecutive_failures, check_interval, env_interval,
                   sleep_start_time, last_sleep, failed_streak, notified, drv_cycles, alert_cycles,
                   failed_cycles>>

\* lines 45-47: nothing is selected
CmdInit ==
    /\ selected_marks_sem = None
    /\ sel_pc = "idle"
    /\ cmd_marks = NoReturn

\* no text has been parsed and no name derived
FnInit ==
    /\ pm_line = <<>>
    /\ pm_ret = NoReturn
    /\ dn_sem = None
    /\ dn_list = None
    /\ dn_resolve = None

\* lines 35-54: no session manager yet, no thread in a fetch
SesInit ==
    /\ session_manager = 0
    /\ managers = <<>>
    /\ lg = [t \in {"poll", "cmd"} |-> [pc |-> "idle", obj |-> 0, ret |-> ""]]
    /\ cl_pc = "idle"

\* no /interval command has been handled
IvInit ==
    /\ iv_args = None
    /\ iv_before = 0

Init == AttInit /\ MarksInit /\ PollInit /\ DrvInit /\ CmdInit /\ FnInit /\ SesInit /\ IvInit

\* one call of fetch_attendance, which reads nothing of the marks state
InitAtt ==
    Init /\ portal_semesters = <<>> /\ attendance_threshold = DefaultThreshold

SpecAtt == InitAtt /\ [][AttNext]_vars

\* the marks operations called one after the other by a single thread
InitMarks == Init /\ attendance_threshold = DefaultThreshold

MarksNext == Tick \/ ThreadStep("cmd")

SpecMarks == InitMarks /\ [][MarksNext]_vars

\* the polling thread and a command handler sharing the checker
InitConc ==
    Init /\ Len(portal_semesters) <= 1 /\ attendance_threshold = DefaultThreshold

ConcNext == Tick \/ \E t \in Threads : ThreadStep(t)

SpecConc == InitConc /\ [][ConcNext]_vars

\* check_for_changes called again and again by the polling thread, time
\* passing between the calls.  The portal answers the attendance calls with
\* at most one record; the session that fetch_attendance established is
\* still there when fetch_marks and fetch_notices test it.
PolledResponses ==
    { recs \in AttendanceResponses :
        /\ Len(recs) <= 1
        /\ \A i \in 1..Len(recs) :
            /\ recs[i].subjectcode = Some("CS101")
            /\ SubjectTotal(recs[i]) \in {40, 50} }

PolledDetails ==
    { r \in DetailOutcomes :
        \/ r.call = "timeout"
        \/ /\ DetailSuccess(r)
           /\ r.response = "dict"
           /\ r.list \in { <<"Present", "Absent", "Present">>,
                           <<"Absent", "notadict">> } }

InitChanges ==
    /\ Init
    /\ Len(portal_semesters) <= 1
    /\ \A i \in 1..Len(portal_semesters) :
        portal_semesters[i].semester_name = <<"S", "E", "M", "1">>

ChangesNext ==
    \/ cc_pc = "idle" /\ Tick
    \/ CC_Begin
    \/ cc_pc = "attendance" /\ A_FetchFails
    \/ cc_pc = "attendance" /\ A_Fetch /\ att_records' \in PolledResponses
    \/ cc_pc = "attendance" /\ A_SubjectWithoutId
    \/ cc_pc = "attendance" /\ A_SubjectDetailed /\ att_detail' \in PolledDetails
    \/ cc_pc = "attendance" /\ A_Return
    \/ CC_AttendanceRaised
    \/ CC_AttendanceReturned
    \/ cc_pc = "marks" /\ th["poll"].ret.kind = "none" /\ FM_Hit("poll")
    \/ cc_pc = "marks" /\ th["poll"].ret.kind = "none" /\ M_Miss("poll")
           /\ th'["poll"].op = "fetch_marks"
    \/ cc_pc \in {"marks", "notices"} /\ M_LoginOk("poll")
    \/ cc_pc = "marks" /\ FM_SgpaOk("poll")
    \/ cc_pc = "marks" /\ FM_SgpaRaise("poll")
    \/ cc_pc = "marks" /\ FM_SemsOk("poll")
    \/ cc_pc = "marks" /\ FM_SemsRaise("poll")
    \/ cc_pc = "marks" /\ FM_GradeOk("poll")
    \/ cc_pc = "marks" /\ FM_GradeRaise("poll")
    \/ cc_pc = "marks" /\ FM_Store("poll")
    \/ CC_MarksReturned
    \/ CC_FetchRaised
    \/ cc_pc = "notices" /\ th["poll"].ret.kind = "none" /\ N_Begin("poll")
    \/ cc_pc = "notices" /\ N_Return("poll")
    \/ CC_Report

SpecChanges == InitChanges /\ [][ChangesNext]_vars

\* the polling thread running periodic_check, with the /interval command
\* and the shutdown signal arriving at any moment.  The portal serves
\* records without subject id and no semester, so no detailed call and no
\* grade-card call is made.
DriverResponses ==
    { recs \in PolledResponses : \A i \in 1..Len(recs) : recs[i].subjectid = None }

DriverNext ==
    \/ P_Top
    \/ P_Exit
    \/ P_LoginFalse
    \/ P_LoginRaises
    \/ P_LoginTrue
    \/ P_CheckRaised
    \/ P_CheckReturned
    \/ P_WaitOver
    \/ P_WaitIntervalChanged
    \/ P_WaitSlice
    \/ SetInterval
    \/ Signal
    \/ drv_pc = "check" /\ cc_ret.kind = "none" /\ CC_Begin
    \/ drv_pc = "check" /\ cc_pc = "attendance" /\ A_FetchFails
    \/ drv_pc = "check" /\ cc_pc = "attendance" /\ A_Fetch
           /\ att_records' \in DriverResponses
    \/ drv_pc = "check" /\ cc_pc = "attendance" /\ A_SubjectWithoutId
    \/ drv_pc = "check" /\ cc_pc = "attendance" /\ A_Return
    \/ drv_pc = "check" /\ CC_AttendanceRaised
    \/ drv_pc = "check" /\ CC_AttendanceReturned
    \/ drv_pc = "check" /\ cc_pc = "marks" /\ th["poll"].ret.kind = "none"
           /\ FM_Hit("poll")
    \/ drv_pc = "check" /\ cc_pc = "marks" /\ th["poll"].ret.kind = "none"
           /\ M_Miss("poll") /\ th'["poll"].op = "fetch_marks"
    \/ drv_pc = "check" /\ cc_pc \in {"marks", "notices"} /\ M_LoginOk("poll")
    \/ drv_pc = "check" /\ cc_pc \in {"marks", "notices"} /\ M_LoginFail("poll")
    \/ drv_pc = "check" /\ cc_pc = "marks" /\ FM_SgpaOk("poll")
    \/ drv_pc = "check" /\ cc_pc = "marks" /\ FM_SgpaRaise("poll")
    \/ drv_pc = "check" /\ cc_pc = "marks" /\ FM_SemsOk("poll")
    \/ drv_pc = "check" /\ cc_pc = "marks" /\ FM_SemsRaise("poll")
    \/ drv_pc = "check" /\ cc_pc = "marks" /\ FM_Store("poll")
    \/ drv_pc = "check" /\ CC_MarksReturned
    \/ drv_pc = "check" /\ CC_FetchRaised
    \/ drv_pc = "check" /\ cc_pc = "notices" /\ th["poll"].ret.kind = "none"
           /\ N_Begin("poll")
    \/ drv_pc = "check" /\ cc_pc = "notices" /\ N_Return("poll")
    \/ drv_pc = "check" /\ CC_Report

InitDriver ==
    /\ Init
    /\ portal_semesters = <<>>
    /\ attendance_threshold = DefaultThreshold

SpecDriver == InitDriver /\ [][DriverNext]_vars

\* one caller using the five fetch operations one after the other, while
\* time passes and cleanup() may drop the session between two calls
Cleanup ==
    /\ session = "in"
    /\ session' = "none"
    /\ UNCHANGED <<att_vars, cmd_vars, fn_vars, ses_vars, iv_vars, marks_state, poll_vars, drv_vars>>

\* the caller has taken the result of fetch_attendance
A_Taken ==
    /\ att_pc = "done"
    /\ AttReset
    /\ UNCHANGED <<marks_vars, poll_vars, drv_vars, cmd_vars, fn_vars, ses_vars, iv_vars>>

\* the caller has taken the result of a marks operation or of fetch_notices
T_Taken(t) ==
    /\ th[t].pc = "idle"
    /\ th[t] # IdleThread
    /\ th' = [th EXCEPT ![t] = IdleThread]
    /\ UNCHANGED <<att_vars, cmd_vars, fn_vars, ses_vars, iv_vars, poll_vars, drv_vars, now, session, marks_cache,
                   marks_cache_expiry, marks_data, marks_semesters,
                   marks_semester_data, marks_loading, ops, cache_set_at,
                   cache_stored, portal_semesters>>

InitApi ==
    /\ Init
    /\ Len(portal_semesters) = 1
    /\ portal_semesters[1].semester_name = <<"S", "E", "M", "1">>
    /\ attendance_threshold = DefaultThreshold

ApiNext ==
    \/ th["cmd"].pc = "idle" /\ att_pc = "idle" /\ Tick
    \/ th["cmd"].pc = "idle" /\ att_pc = "idle" /\ Cleanup
    \/ att_pc = "idle" /\ ThreadStep("cmd")
    \/ att_pc = "idle" /\ N_Begin("cmd")
    \/ N_Return("cmd")
    \/ T_Taken("cmd")
    \/ th["cmd"] = IdleThread /\ A_FetchFails
    \/ th["cmd"] = IdleThread /\ A_Fetch /\ att_records' \in DriverResponses
    \/ A_SubjectWithoutId
    \/ A_Return
    \/ A_Taken

SpecApi == InitApi /\ [][ApiNext]_vars

(***************************************************************************)
(* The text functions on their own: _parse_marks_line on one line of a     *)
(* marks PDF, and the display name of one semester object as the loops of  *)
(* fetch_marks_semesters and fetch_marks_for_semester derive it.            *)
(***************************************************************************)
\* lines a marks PDF can hold after a subject name
MarksLines ==
    { <<"A", " ", "0", ".", "0", "/", "2", "0", ".", "0">>,
      <<"B", " ", "1", "5", ".", "0", "/", "2", "0", ".", "0">>,
      <<"1", ".", "5", "/", " ", "2", "0", " ", "1", ".", "5", "/", "2", "0", ".", "0">>,
      <<"T", "o", "t", "a", "l", " ", "m", "a", "r", "k", "s">>,
      <<"A", " ", "x">>,
      <<"A", " ", "x", " ", "3", "/", "5">>,
      <<"B", "+", " ", "1", "5", ".", "0", "/", "2", "0", ".", "0">>,
      <<"C", " ", "1", "2", "/", "2", "0">>,
      <<"D", " ", "x", "/", "2", "0">>,
      <<"F", " ", "/", "2", "0">>,
      <<"B", "e", "s", "t", " ", "7", "/", "1", "0">>,
      <<"B", " ", "1", "5", " ", "3", "/", "5">>,
      <<" ", "4", "/", "5", " ">>,
      <<>> }

\* lines 954-1001: one call of _parse_marks_line
PM_Parse ==
    /\ \E marks_line \in MarksLines :
        /\ pm_line' = marks_line
        /\ pm_ret' = IF ParseMarksLine(marks_line) = None THEN ReturnedNone
                      ELSE Returned(Value(ParseMarksLine(marks_line)))
    /\ UNCHANGED <<att_vars, marks_vars, poll_vars, drv_vars, cmd_vars, ses_vars, iv_vars,
                   dn_sem, dn_list, dn_resolve>>

\* semester objects as the portal can name and code them
NameObjects ==
    { [semester_name |-> <<"O", "D", "D", " ", "2", "0", "2", "4">>,
       registration_code |-> <<>>],
      [semester_name |-> <<"S", "E", "M", "1">>,
       registration_code |-> <<>>],
      [semester_name |-> <<>>,
       registration_code |-> <<>>],
      [semester_name |-> <<"S", "e", "m", " ", "(", "O", "D", "D", "2", "4", ")">>,
       registration_code |-> <<>>],
      [semester_name |-> <<"S", "e", "m">>,
       registration_code |-> <<"E", "V", "E", "8", "7">>],
      [semester_name |-> <<"S", "e", "m", " ", "2", "0", "2", "3">>,
       registration_code |-> <<"S", "U", "M", "M", "E", "R">>],
      [semester_name |-> <<"S", "e", "m">>,
       registration_code |-> <<"O", "D", "D">>],
      [semester_name |-> <<"E", "V", "E", "N">>,
       registration_code |-> <<"O", "D", "D", "2", "0", "2", "1", "X">>],
      [semester_name |-> <<"S", "e", "m">>,
       registration_code |-> <<"O", "D", "D", "E", "V", "E", "S", "U", "M", "M", "E", "R", "1", "2", "3", "4", "5">>],
      [semester_name |-> <<"S", "U", "M", "M", "E", "R">>,
       registration_code |-> <<"E", "V", "E", "5", "0">>],
      [semester_name |-> <<"S", "e", "m">>,
       registration_code |-> <<"E", "V", "E", "4", "9">>],
      [semester_name |-> <<"o", "d", "d", " ", "s", "e", "m">>,
       registration_code |-> <<"9">>],
      [semester_name |-> <<"O", "D", "D", " ", "2", "4">>,
       registration_code |-> <<>>],
      [semester_name |-> <<"S", "e", "m", " ", "2", "4">>,
       registration_code |-> <<>>] }

\* lines 447-502: the loop body of fetch_marks_semesters on one object
DN_List ==
    /\ \E sem \in NameObjects :
        /\ dn_sem' = Some(sem)
        /\ dn_list' = Some(ListDisplayName(sem))
    /\ dn_resolve' = None
    /\ UNCHANGED <<att_vars, marks_vars, poll_vars, drv_vars, cmd_vars, ses_vars, iv_vars,
                   pm_line, pm_ret>>

\* lines 633-685: the loop body of fetch_marks_for_semester on that object
DN_Resolve ==
    /\ dn_sem # None
    /\ dn_resolve = None
    /\ dn_resolve' = Some(ResolveDisplayName(Value(dn_sem)))
    /\ UNCHANGED <<att_vars, marks_vars, poll_vars, drv_vars, cmd_vars, ses_vars, iv_vars,
                   pm_line, pm_ret, dn_sem, dn_list>>

\* the text functions applied to one input after the other
InitText ==
    Init /\ portal_semesters = <<>> /\ attendance_threshold = DefaultThreshold

TextNext ==
    \/ PM_Parse
    \/ DN_List
    \/ DN_Resolve

SpecText == InitText /\ [][TextNext]_vars

\* ---- the session steps of a fetch, one statement at a time ----

LgSet(t, pc, obj, retry, ret) ==
    lg' = [lg EXCEPT ![t] = [pc |-> pc, obj |-> obj, retry |-> retry, ret |-> ret]]

\* is_logged_in / get_webportal of the manager self.session_manager names
ManagerLoggedIn == session_manager # 0 /\ managers[session_manager]

\* a fetch starts: line 167 calls ensure_logged_in
S_Begin(t) ==
    /\ lg[t].pc = "idle"
    /\ LgSet(t, "test", 0, FALSE, "")
    /\ UNCHANGED <<att_vars, marks_vars, poll_vars, drv_vars, cmd_vars, fn_vars, iv_vars,
                   session_manager, managers, cl_pc>>

\* line 88 finds a logged-in manager: ensure_logged_in returns True (line 90)
S_TestLoggedIn(t) ==
    /\ lg[t].pc = "test"
    /\ ManagerLoggedIn
    /\ LgSet(t, "validated", 0, FALSE, "")
    /\ UNCHANGED <<att_vars, marks_vars, poll_vars, drv_vars, cmd_vars, fn_vars, iv_vars,
                   session_manager, managers, cl_pc>>

\* line 88 finds no manager or one that is not logged in: line 89 calls login
S_TestNotLoggedIn(t) ==
    /\ lg[t].pc = "test"
    /\ ~ManagerLoggedIn
    /\ LgSet(t, "login", 0, FALSE, "")
    /\ UNCHANGED <<att_vars, marks_vars, poll_vars, drv_vars, cmd_vars, fn_vars, iv_vars,
                   session_manager, managers, cl_pc>>

\* line 73: a new manager, not logged in, replaces self.session_manager
S_NewManager(t) ==
    /\ lg[t].pc = "login"
    /\ Len(managers) <= MaxOps
    /\ managers' = Append(managers, FALSE)
    /\ session_manager' = Len(managers) + 1
    /\ LgSet(t, "call", 0, lg[t].retry, "")
    /\ UNCHANGED <<att_vars, marks_vars, poll_vars, drv_vars, cmd_vars, fn_vars, iv_vars, cl_pc>>

\* login raised: inside the try of ensure_logged_in the except branch calls
\* login once more (line 93), a second raise leaves the fetch
LoginRaised(t) ==
    IF lg[t].retry
    THEN LgSet(t, "idle", 0, FALSE, "Raised")
    ELSE LgSet(t, "login", 0, TRUE, "")

\* line 74 reads self.session_manager and calls login_simple on that manager
S_LoginCall(t) ==
    /\ lg[t].pc = "call"
    /\ IF session_manager = 0
       THEN LoginRaised(t)
       ELSE LgSet(t, "portal", session_manager, lg[t].retry, "")
    /\ UNCHANGED <<att_vars, marks_vars, poll_vars, drv_vars, cmd_vars, fn_vars, iv_vars,
                   session_manager, managers, cl_pc>>

\* login_simple: the portal accepts or refuses; logged_in is set on the
\* manager the call was made on (session_manager.py lines 18-32)
S_LoginSimple(t) ==
    /\ lg[t].pc = "portal"
    /\ \E ok \in BOOLEAN :
        IF ok
        THEN /\ managers' = [managers EXCEPT ![lg[t].obj] = TRUE]
             /\ LgSet(t, "info", 0, lg[t].retry, "")
        ELSE /\ managers' = managers
             /\ LgSet(t, "idle", 0, FALSE, "LoginError")
    /\ UNCHANGED <<att_vars, marks_vars, poll_vars, drv_vars, cmd_vars, fn_vars, iv_vars,
                   session_manager, cl_pc>>

\* line 76 reads self.session_manager again, then login returns True
S_SessionInfo(t) ==
    /\ lg[t].pc = "info"
    /\ IF session_manager = 0
       THEN LoginRaised(t)
       ELSE LgSet(t, "validated", 0, FALSE, "")
    /\ UNCHANGED <<att_vars, marks_vars, poll_vars, drv_vars, cmd_vars, fn_vars, iv_vars,
                   session_manager, managers, cl_pc>>

\* what lines 171-173 give the fetch
WebportalOutcome ==
    IF session_manager = 0 THEN "AttributeError"
    ELSE IF managers[session_manager] THEN "handle"
    ELSE "APIError"

\* lines 171-173: the fetch obtains its webportal handle
S_GetWebportal(t) ==
    /\ lg[t].pc = "validated"
    /\ LgSet(t, "idle", 0, FALSE, WebportalOutcome)
    /\ UNCHANGED <<att_vars, marks_vars, poll_vars, drv_vars, cmd_vars, fn_vars, iv_vars,
                   session_manager, managers, cl_pc>>

\* cleanup, lines 877-879: logout of the manager
S_CleanupLogout ==
    /\ cl_pc = "idle"
    /\ session_manager # 0
    /\ managers' = [managers EXCEPT ![session_manager] = FALSE]
    /\ cl_pc' = "drop"
    /\ UNCHANGED <<att_vars, marks_vars, poll_vars, drv_vars, cmd_vars, fn_vars, iv_vars,
                   session_manager, lg>>

\* cleanup, line 880
S_CleanupDrop ==
    /\ cl_pc = "drop"
    /\ session_manager' = 0
    /\ cl_pc' = "done"
    /\ UNCHANGED <<att_vars, marks_vars, poll_vars, drv_vars, cmd_vars, fn_vars, iv_vars,
                   managers, lg>>

\* two threads fetch through the shared checker while the signal handler
\* may run cleanup
InitSession ==
    Init /\ portal_semesters = <<>> /\ attendance_threshold = DefaultThreshold

SessionNext ==
    \/ \E t \in Threads : S_Begin(t)
    \/ \E t \in Threads : S_TestLoggedIn(t)
    \/ \E t \in Threads : S_TestNotLoggedIn(t)
    \/ \E t \in Threads : S_NewManager(t)
    \/ \E t \in Threads : S_LoginCall(t)
    \/ \E t \in Threads : S_LoginSimple(t)
    \/ \E t \in Threads : S_SessionInfo(t)
    \/ \E t \in Threads : S_GetWebportal(t)
    \/ S_CleanupLogout
    \/ S_CleanupDrop

SpecSession == InitSession /\ [][SessionNext]_vars

\* ---- the /interval command ----

\* int(text) of Python: an optional sign, then digits that single
\* underscores may separate; anything else is a ValueError (None)
PyInt(s) ==
    LET signed == Len(s) > 0 /\ s[1] \in {"+", "-"}
        body == IF signed THEN Tail(s) ELSE s
        ok == /\ Len(body) > 0
              /\ \A i \in 1..Len(body) : body[i] \in Digits \cup {"_"}
              /\ body[1] # "_" /\ body[Len(body)] # "_"
              /\ \A i \in 1..(Len(body) - 1) : ~(body[i] = "_" /\ body[i + 1] = "_")
        n == DigitsValue(SelectSeq(body, LAMBDA c : c \in Digits)) IN
    IF ~ok THEN None
    ELSE IF signed /\ s[1] = "-" THEN Some(0 - n) ELSE Some(n)

\* the argument lists users send with /interval
CommandArgs ==
    { <<>>,
      << <<"4">> >>, << <<"5">> >>, << <<"6">> >>, << <<"3", "0">> >>,
      << <<"1", "4", "4", "0">> >>, << <<"1", "4", "4", "1">> >>,
      << <<"0">> >>, << <<"-", "5">> >>, << <<"-", "3", "0">> >>,
      << <<"+", "7">> >>, << <<"0", "0", "8">> >>, << <<"1", "_", "0">> >>,
      << <<"3", "0", ".", "0">> >>, << <<"3", "0", ".", "5">> >>,
      << <<"a", "b", "c">> >>, << <<"3", "0", "m">> >>, << <<"1", "e", "2">> >>,
      << <<"1", "2">>, <<"9", "9", "9", "9">> >>,
      << <<"x">>, <<"4", "5">> >> }

\* any interval up to a day
UpToADay(n) == n >= 1 /\ n <= 1440

\* lines 308-313: the valid range
ValidInterval(n) == n >= 5 /\ n <= 1440

\* lines 301-314: the environment is rewritten only for an integer in range;
\* the writing of the .env file (lines 315-336) does not touch it again
IntervalCommand(args) ==
    /\ iv_args' = Some(args)
    /\ iv_before' = env_interval
    /\ env_interval' =
           IF Len(args) = 0 THEN env_interval
           ELSE LET new_interval == PyInt(args[1]) IN
                IF new_interval = None THEN env_interval
                ELSE IF ValidInterval(Value(new_interval))
                     THEN Value(new_interval) * 60
                     ELSE env_interval
    /\ UNCHANGED <<att_vars, marks_vars, poll_vars, cmd_vars, fn_vars, ses_vars,
                   drv_pc, running, consecutive_failures, check_interval,
                   sleep_start_time, last_sleep, failed_streak, notified,
                   drv_cycles, alert_cycles, failed_cycles>>

\* /interval commands one after the other
InitInterval ==
    Init /\ portal_semesters = <<>> /\ attendance_threshold = DefaultThreshold

IntervalNext == \E args \in CommandArgs : IntervalCommand(args)

SpecInterval == InitInterval /\ [][IntervalNext]_vars

\* a marks command (fetch_marks_semesters, select_marks_semester,
\* get_current_marks) on thread "cmd" while the polling thread calls
\* fetch_marks.  The portal answers the polling thread's requests: a
\* fetch_marks that raises stores nothing (SpecConc has those runs).
InitSelect ==
    /\ Init
    /\ Len(portal_semesters) = 1
    /\ portal_semesters[1].semester_name = <<"S", "E", "M", "1">>
    /\ attendance_threshold = DefaultThreshold

SelectNext ==
    \/ Tick
    \/ sel_pc # "fetch" /\ FS_Hit("cmd")
    \/ sel_pc # "fetch" /\ th["cmd"].pc = "idle" /\ ops <= MaxOps /\ M_Miss("cmd")
           /\ th'["cmd"].op = "fetch_marks_semesters"
    \/ M_LoginOk("cmd")
    \/ M_LoginFail("cmd")
    \/ FS_SemsOk("cmd")
    \/ FS_SemsRaise("cmd")
    \/ SEL_Select("cmd")
    \/ th["cmd"].pc = "select" /\ FL_Hit("cmd")
    \/ th["cmd"].pc = "select" /\ ops <= MaxOps /\ M_Miss("cmd")
    \/ FL_Get("cmd")
    \/ FL_SemsOk("cmd")
    \/ FL_SemsRaise("cmd")
    \/ FL_GradeOk("cmd")
    \/ FL_GradeEmpty("cmd")
    \/ FL_GradeRaise("cmd")
    \/ FL_Pdf("cmd")
    \/ FL_Store("cmd")
    \/ GCM("cmd")
    \/ FM_Hit("poll")
    \/ th["poll"].pc = "idle" /\ ops <= MaxOps /\ M_Miss("poll")
           /\ th'["poll"].op = "fetch_marks"
    \/ M_LoginOk("poll")
    \/ M_LoginFail("poll")
    \/ FM_SgpaOk("poll")
    \/ FM_SemsOk("poll")
    \/ FM_GradeOk("poll")
    \/ FM_Store("poll")

SpecSelect == InitSelect /\ [][SelectNext]_vars

(***************************************************************************)
(* Properties of fetch_attendance.                                         *)
(***************************************************************************)
AttSnapshot == att_ret.value[1]

RECURSIVE SumField(_, _, _)
SumField(d, keys, field) ==
    IF keys = {} THEN 0
    ELSE LET k == CHOOSE x \in keys : TRUE IN
         (IF field = "total" THEN d[k].total ELSE d[k].attended)
             + SumField(d, keys \ {k}, field)

\* the lecture + tutorial + practical total of a record, missing counts as 0
RecordClassCount(rec) ==
    (IF rec.counts.Ltotalclass = {} THEN 0 ELSE CHOOSE v \in rec.counts.Ltotalclass : TRUE)
    + (IF rec.counts.Ttotalclass = {} THEN 0 ELSE CHOOSE v \in rec.counts.Ttotalclass : TRUE)
    + (IF rec.counts.Ptotalclass = {} THEN 0 ELSE CHOOSE v \in rec.counts.Ptotalclass : TRUE)

RecordPresentCount(rec) ==
    (IF rec.counts.Ltotalpres = {} THEN 0 ELSE CHOOSE v \in rec.counts.Ltotalpres : TRUE)
    + (IF rec.counts.Ttotalpres = {} THEN 0 ELSE CHOOSE v \in rec.counts.Ttotalpres : TRUE)
    + (IF rec.counts.Ptotalpres = {} THEN 0 ELSE CHOOSE v \in rec.counts.Ptotalpres : TRUE)

RecordsWithClasses(recs) == SelectSeq(recs, LAMBDA r : RecordClassCount(r) # 0)

\* C1: every returned snapshot has total_classes = sum of 'total' and
\* attended_classes = sum of 'attended' over exactly the entries of
\* 'subjects', and attendance_percentage = attended_classes / total_classes
\* * 100 (0 without classes); two records, one with 40 classes of which 30
\* attended and one with no classes, give one subject and 75 percent.
C1_TotalsAreSumsOverSubjects ==
    att_ret.kind = "value" =>
        /\ AttSnapshot.total_classes
               = SumField(AttSnapshot.subjects, DOMAIN AttSnapshot.subjects, "total")
        /\ AttSnapshot.attended_classes
               = SumField(AttSnapshot.subjects, DOMAIN AttSnapshot.subjects, "attended")
        /\ AttSnapshot.attendance_percentage
               = IF AttSnapshot.total_classes = 0 THEN <<0, 1>>
                 ELSE Frac(AttSnapshot.attended_classes * 100, AttSnapshot.total_classes)
        /\ ( /\ Len(att_records) = 2
             /\ RecordClassCount(att_records[1]) = 40
             /\ RecordPresentCount(att_records[1]) = 30
             /\ RecordClassCount(att_records[2]) = 0
             /\ att_detail.list = <<>> )
           => /\ Cardinality(DOMAIN AttSnapshot.subjects) = 1
              /\ AttSnapshot.attendance_percentage = <<75, 1>>

\* C2: a record whose lecture + tutorial + practical totals sum to 0 gives
\* no subject of the returned snapshot and adds nothing to its totals: every
\* subject of the snapshot comes from a record with classes, and the figures
\* the snapshot is computed from are those of the records with classes alone.
C2_ZeroTotalRecordsExcluded ==
    att_ret.kind = "value" =>
        /\ \A c \in DOMAIN AttSnapshot.subjects :
               \E i \in 1..Len(att_records) :
                   /\ RecordClassCount(att_records[i]) # 0
                   /\ att_records[i].subjectcode \in {{c}} \cup
                          (IF c = "Unknown Subject" THEN {{}} ELSE {})
        /\ \A c \in DOMAIN basic_subjects : basic_subjects[c].total # 0
        /\ DOMAIN AttSnapshot.subjects = DOMAIN basic_subjects
        /\ LET kept == RecordsWithClasses(att_records) IN
           /\ basic_subjects = BuildBasic(kept, Len(kept))
           /\ basic_order = BuildOrder(kept, Len(kept))

C2_Witness ==
    /\ att_ret.kind = "value"
    /\ \E i \in 1..Len(att_records) : RecordClassCount(att_records[i]) = 0
    /\ \E i \in 1..Len(att_records) : RecordClassCount(att_records[i]) # 0
    /\ AttSnapshot.total_classes > 0

\* a detailed call that gave a 'Success' response with a per-lecture list
SuccessWithList(r) ==
    /\ r.call = "ok200"
    /\ r.shape = "dict"
    /\ r.status = "dict"
    /\ r.responseStatus = "Success"
    /\ r.response = "dict"
    /\ r.list # <<>>

\* C3: once the aggregate call has succeeded, no outcome of a per-subject
\* detailed call other than a 'Success' response with a per-lecture list is
\* raised to the caller, and the subject keeps its basic total / attended /
\* percentage.
C3_DetailFailureIsSwallowed ==
    (att_detail.call # "none" /\ ~SuccessWithList(att_detail)) =>
        /\ att_ret.kind # "raise"
        /\ att_idx > 1
        /\ enhanced_subjects[basic_order[att_idx - 1]]
               = basic_subjects[basic_order[att_idx - 1]]

(***************************************************************************)
(* Properties of the marks cache and the marks operations.                 *)
(***************************************************************************)
AllKeys == {K_latest, K_semesters} \cup { K_semester(l) : l \in Labels }

\* the key a call of thread t works on
KeyOf(t) ==
    CASE th[t].op = "fetch_marks" -> K_latest
      [] th[t].op = "fetch_marks_semesters" -> K_semesters
      [] OTHER -> K_semester(th[t].semester)

\* C4: a key is valid iff it has been set and the time is strictly before
\* set time + 300; _get_cache gives the stored value while the key is valid
\* and a miss once the 300 seconds have elapsed, without any eviction.
C4_ValidUntilExpiry ==
    \A k \in AllKeys :
        /\ IsCacheValid(k) <=> (k \in DOMAIN cache_set_at /\ now < cache_set_at[k] + 300)
        /\ IsCacheValid(k) => GetCache(k) = {marks_cache[k]}
        /\ (IsCacheValid(k) /\ k # K_latest) => GetCache(k) = {cache_stored[k]}
        /\ ~IsCacheValid(k) => GetCache(k) = {}
        /\ k \in DOMAIN cache_set_at => k \in DOMAIN marks_cache

C4_Witness ==
    \E k \in AllKeys :
        /\ k \in DOMAIN cache_set_at
        /\ now = cache_set_at[k] + 300
        /\ th["cmd"].op = "fetch_marks_for_semester"
        /\ k = K_semester(th["cmd"].semester)
        /\ th["cmd"].hit
        /\ th["cmd"].ret.kind = "value_none"

\* a thread is between the validity test that failed and the end of its call
Missed(t) == th[t].pc \notin {"idle", "get"}

\* C5: of two threads in the same cached fetch (same key) while the key is
\* absent or expired, at most one misses the cache and goes upstream.
C5_AtMostOneMiss ==
    \A t1, t2 \in Threads :
        (t1 # t2 /\ Missed(t1) /\ Missed(t2)) => KeyOf(t1) # KeyOf(t2)

\* C6: a call answered while its key is valid made no login and no portal
\* call and returned the value the last uncached run stored under the key.
C6_HitReturnsStoredValue ==
    \A t \in Threads :
        (th[t].pc = "idle" /\ th[t].hit /\ IsCacheValid(KeyOf(t))) =>
            /\ th[t].called = {}
            /\ th[t].ret = Returned(cache_stored[KeyOf(t)])

\* the list call of fetch_marks_for_semester has returned in thread t
ListFetched(t) ==
    /\ th[t].op = "fetch_marks_for_semester"
    /\ "sems" \in th[t].called
    /\ th[t].cur_call # "sems"

\* C7: a label that fetch_marks_semesters derives from the list L is
\* resolved by fetch_marks_for_semester against the same L, to the first
\* object of L whose re-derived name is the label; never 'not found'.
C7_ListedNameResolves ==
    \A t \in Threads :
        ( /\ ListFetched(t)
          /\ \E i \in 1..Len(portal_semesters) :
                 ListDisplayName(portal_semesters[i]) = th[t].semester )
        => /\ th[t].ret # Raised("ValueError")
           /\ th[t].target \in 1..Len(portal_semesters)
           /\ ResolveDisplayName(portal_semesters[th[t].target]) = th[t].semester
           /\ \A j \in 1..(th[t].target - 1) :
                  ResolveDisplayName(portal_semesters[j]) # th[t].semester

\* the shared marks state is written only by the step that ends a call
\* with a returned value
WritesOnlyOnReturn ==
    (marks_cache' # marks_cache \/ marks_cache_expiry' # marks_cache_expiry
         \/ marks_data' # marks_data)
    => \E t \in Threads :
           /\ th[t].pc # "idle"
           /\ th'[t].pc = "idle"
           /\ th'[t].ret.kind = "value"

\* C8: when no object of the fetched list has a derived display name equal
\* to the label, fetch_marks_for_semester raises the not-found error, makes
\* no grade-card call and no PDF download, and writes neither a cache entry
\* nor marks_data.
C8_NotFoundRaises ==
    /\ [](\A t \in Threads :
            ( /\ ListFetched(t)
              /\ \A i \in 1..Len(portal_semesters) :
                     ResolveDisplayName(portal_semesters[i]) # th[t].semester )
            => /\ th[t].pc = "idle"
               /\ th[t].ret = Raised("ValueError")
               /\ th[t].called \subseteq {"login", "sems"})
    /\ [][WritesOnlyOnReturn]_vars

C8_Witness ==
    /\ ListFetched("cmd")
    /\ portal_semesters # <<>>
    /\ th["cmd"].ret = Raised("ValueError")
    /\ marks_data # EmptyDict

C10_RetriedUpToThreeTimes ==
    \A t \in Threads :
        th[t].op \in {"fetch_marks", "fetch_marks_for_semester"} =>
            /\ th[t].cur_tries <= 3
            /\ ~th[t].retried_after_ok
            /\ ( /\ th[t].pc = "idle"
                 /\ th[t].ret.kind = "raise"
                 /\ th[t].cur_call \in {"sgpa", "sems", "grade"} )
               => th[t].cur_tries = 3

(***************************************************************************)
(* Properties of the PDF fallback of fetch_marks_for_semester.             *)
(***************************************************************************)
\* thread t is past the PDF decision of an uncached fetch_marks_for_semester
\* that goes on to return
PastFallback(t) ==
    /\ th[t].op = "fetch_marks_for_semester"
    /\ ~th[t].hit
    /\ \/ th[t].pc = "store"
       \/ th[t].pc = "idle" /\ th[t].ret.kind = "value"

\* the 'subjects' of the snapshot the call returns
FinalSubjects(t) ==
    IF th[t].pc = "store" THEN th[t].subjects ELSE th[t].ret.value[1].subjects

\* the PDF fallback ran and failed: the download raised or gave no bytes,
\* the extraction raised, or it found no subject
FallbackFailed(t) ==
    /\ "pdf" \in th[t].called
    /\ th[t].pc # "pdf"
    /\ \/ th[t].pdf.kind \in {"download_raises", "empty_bytes", "extract_raises"}
       \/ th[t].pdf.kind = "text" /\ ScanLines(th[t].pdf.lines, 1, EmptyDict) = EmptyDict

\* C11: when the grade card gives no subject and the PDF fallback fails in
\* any way, fetch_marks_for_semester goes on to return a snapshot whose
\* 'subjects' is empty; no error of the fallback reaches the caller.
C11_FailedFallbackGivesEmptySubjects ==
    \A t \in Threads :
        (th[t].op = "fetch_marks_for_semester" /\ FallbackFailed(t)) =>
            /\ SemesterSubjects(th[t].card) = EmptyDict
            /\ PastFallback(t)
            /\ FinalSubjects(t) = EmptyDict

C11_Witness ==
    /\ th["cmd"].op = "fetch_marks_for_semester"
    /\ th["cmd"].pc = "idle"
    /\ th["cmd"].pdf.kind = "download_raises"
    /\ th["cmd"].card.kind = "dict_gradecard"
    /\ th["cmd"].ret.kind = "value"

B_Document == <<<<"P", "h", "y", "s", "i", "c", "s", " ", "L", "a", "b", " ", "O", "n", "e">>, <<"B", " ", "1", "5", ".", "0", "/", "2", "0", ".", "0">>, <<>>>>

\* C12: fetch_marks_for_semester runs the PDF fallback iff the grade card
\* gave no subject; when the extractor finds subjects they are exactly the
\* snapshot's 'subjects' (one subject with a 'B' line gives one entry with
\* grade 'B'), otherwise 'subjects' is what the grade card gave.
C12_PdfIffNoApiSubjects ==
    \A t \in Threads :
        PastFallback(t) =>
            /\ "pdf" \in th[t].called <=> SemesterSubjects(th[t].card) = EmptyDict
            /\ "pdf" \notin th[t].called =>
                   /\ th[t].pdf.kind = "none"
                   /\ FinalSubjects(t) = SemesterSubjects(th[t].card)
            /\ ("pdf" \in th[t].called /\ th[t].pdf.kind = "text") =>
                   FinalSubjects(t) = ScanLines(th[t].pdf.lines, 1, EmptyDict)
            /\ ("pdf" \in th[t].called /\ th[t].pdf.kind # "text") =>
                   FinalSubjects(t) = EmptyDict
            /\ (th[t].pdf.kind = "text" /\ th[t].pdf.lines = B_Document) =>
                   /\ DOMAIN FinalSubjects(t) = {<<"P", "h", "y", "s", "i", "c", "s", " ", "L", "a", "b", " ", "O", "n", "e">>}
                   /\ FinalSubjects(t)[<<"P", "h", "y", "s", "i", "c", "s", " ", "L", "a", "b", " ", "O", "n", "e">>].grade = <<"B">>
                   /\ FinalSubjects(t)[<<"P", "h", "y", "s", "i", "c", "s", " ", "L", "a", "b", " ", "O", "n", "e">>].t1 = <<15, 1>>

C12_Witness ==
    /\ PastFallback("cmd")
    /\ th["cmd"].pc = "idle"
    /\ th["cmd"].pdf.lines = B_Document
    /\ Cardinality(DOMAIN th["cmd"].ret.value[1].subjects) = 1

(***************************************************************************)
(* Properties of check_for_changes.                                        *)
(***************************************************************************)
\* the last call of check_for_changes returned a report
Reported == cc_pc = "idle" /\ cc_ret.kind = "value"

Report == cc_ret.value[1]

\* C13: a call of check_for_changes that succeeds while no snapshot is
\* stored (the first one that succeeds) reports attendance_changed = false
\* and marks_changed = false
C13_FirstReportHasNoChanges ==
    (Reported /\ cc_prev.percentage = None /\ cc_prev.cgpa = None)
        => (~Report.attendance_changed /\ ~Report.marks_changed)

\* the first report, made by a call that followed a failed one
C13_Witness ==
    /\ Reported
    /\ cc_prev.percentage = None
    /\ cc_prev.cgpa = None
    /\ cycles = 2
    /\ ~Report.attendance_changed
    /\ ~Report.marks_changed
    /\ last_attendance_data # None

\* C14: attendance_changed is true exactly when an attendance snapshot was
\* stored and the current overall percentage differs from the stored one;
\* marks_changed is true exactly when a marks snapshot was stored and the
\* current cgpa differs from the stored one
C14_ChangedIffStoredAndDifferent ==
    Reported =>
        /\ Report.attendance_changed <=>
               /\ cc_prev.percentage # None
               /\ cc_prev.percentage #
                      {Report.current_data.attendance.attendance_percentage}
        /\ Report.marks_changed <=>
               /\ cc_prev.cgpa # None
               /\ cc_prev.cgpa # {Report.current_data.marks[<<"cgpa">>]}

\* the cgpa moved while the percentage stayed
C14_Witness ==
    /\ Reported
    /\ Report.marks_changed
    /\ ~Report.attendance_changed
    /\ cc_prev.percentage # None

\* C15: attendance_below_threshold is true exactly when the current overall
\* percentage is strictly less than the threshold (75 unless the
\* environment says otherwise), whatever was stored before; a percentage
\* equal to the threshold is not below it
C15_BelowIffStrictlyLess ==
    Reported =>
        LET percentage == Report.current_data.attendance.attendance_percentage IN
        Report.attendance_below_threshold <=>
            percentage[1] < attendance_threshold * percentage[2]

\* a first report whose percentage is exactly the threshold
C15_Witness ==
    /\ Reported
    /\ cc_prev.percentage = None
    /\ Report.current_data.attendance.attendance_percentage =
           <<attendance_threshold, 1>>
    /\ ~Report.attendance_below_threshold

\* C16: new_notices holds the current notices, in their order, whose id is
\* not among the ids of the notices stored by the previous report
C16_NewNoticesAreUnseenIds ==
    Reported =>
        Report.new_notices =
            SelectSeq(Report.current_data.notices,
                      LAMBDA notice : notice.id \notin cc_prev.notice_ids)

\* a report whose notice carries an id that was stored, so nothing is new
C16_Witness ==
    /\ Reported
    /\ cc_prev.notice_ids # {}
    /\ Report.current_data.notices # <<>>
    /\ Report.new_notices = <<>>

stored_snapshots == <<last_attendance_data, last_marks_data, last_notices>>

\* C17: once check_for_changes has returned a report, the three stored
\* snapshots are exactly the report's current_data; they are written by no
\* other step, so a call that raises leaves all three as they were
C17_StoredOnlyWithTheReport ==
    /\ [](Reported =>
            /\ last_attendance_data = Some(Report.current_data.attendance)
            /\ last_marks_data = Some(Report.current_data.marks)
            /\ last_notices = Report.current_data.notices)
    /\ [][stored_snapshots' # stored_snapshots
            => (cc_pc' = "idle" /\ cc_ret'.kind = "value")]_vars

\* a call raised after an earlier one had stored its snapshots, which are
\* still the ones the call found
C17_Witness ==
    /\ cc_pc = "idle"
    /\ cc_ret.kind = "raise"
    /\ last_attendance_data # None
    /\ last_marks_data # None
    /\ cc_prev.percentage = { d.attendance_percentage : d \in last_attendance_data }
    /\ cc_prev.notice_ids = NoticeIds(last_notices)

(***************************************************************************)
(* Properties of periodic_check.                                           *)
(***************************************************************************)
\* C18: a failure notification is sent only in a cycle that is at least the
\* third failed cycle in a row since the last login test that passed or the
\* last failure notification
C18_NotifiedOnlyAtThirdFailure ==
    notified # "" => failed_streak >= 3

\* three failed cycles in a row, the third one notified
C18_Witness ==
    /\ notified = "Portal Connection Issues"
    /\ failed_streak = 3
    /\ drv_cycles = 3
    /\ consecutive_failures = 0

\* C19: every wait between two cycles, after a cycle that succeeded and
\* after one that failed alike, is slept in slices of at most 30 seconds
C19_EveryWaitIsSliced ==
    last_sleep <= 30

(***************************************************************************)
(* Properties of the login test of the fetch operations.                   *)
(***************************************************************************)
\* the caches and the stored snapshots of the checker
stores == <<marks_cache, marks_cache_expiry, marks_data, marks_semesters,
            marks_semester_data, last_attendance_data, last_marks_data,
            last_notices>>

\* C20: when the login test of fetch_attendance, fetch_marks,
\* fetch_marks_for_semester (on a miss), fetch_marks_semesters or
\* fetch_notices fails, the operation ends with LoginError, has made no
\* portal data call, and no cache entry or stored snapshot has changed
C20_FailedLoginRaisesAndChangesNothing ==
    [][/\ \A t \in Threads :
            /\ (th[t].pc = "login" /\ th'[t] # th[t] /\ session' # "in")
                   => /\ th'[t].pc = "idle"
                      /\ th'[t].ret = Raised("LoginError")
                      /\ th'[t].called = {"login"}
            /\ ((th[t].pc = "login" \/ th'[t].pc = "login") /\ th'[t] # th[t])
                   => UNCHANGED stores
       /\ (att_pc = "idle" /\ att_pc' = "done" /\ session' # "in")
              => /\ att_ret' = Raised("LoginError")
                 /\ att_records' = <<>>
                 /\ att_detail' = NoDetail
                 /\ UNCHANGED stores]_vars

\* fetch_marks_for_semester missed and failed at the login test while the
\* cache held the latest marks
C20_Witness ==
    /\ th["cmd"].op = "fetch_marks_for_semester"
    /\ th["cmd"].ret = Raised("LoginError")
    /\ th["cmd"].called = {"login"}
    /\ K_latest \in DOMAIN marks_cache
    /\ session = "out"

(***************************************************************************)
(* More properties of fetch_attendance.                                    *)
(***************************************************************************)
\* the record a subject's entry is built from: the last record with classes
\* that carries the subject's code
DecidingRecord(c) ==
    LET idx == { i \in 1..Len(att_records) :
                   /\ RecordClassCount(att_records[i]) # 0
                   /\ att_records[i].subjectcode \in
                          {{c}} \cup (IF c = UnknownSubject THEN {{}} ELSE {}) }
    IN att_records[CHOOSE i \in idx : \A j \in idx : j <= i]

\* no per-lecture list was obtained for the entry
WithoutLectureList(entry) == "detailed_data" \notin DOMAIN entry

FieldOr0(opt) == IF opt = {} THEN <<0, 1>> ELSE CHOOSE v \in opt : TRUE

\* C21: a subject whose record has classes and a non-zero combined LTP
\* percentage, and for which no per-lecture list was obtained, has that
\* field as its 'percentage' in the snapshot, whatever the component
\* percentages and the counts are
C21_LtpPercentageIsReported ==
    att_ret.kind = "value" =>
        \A c \in DOMAIN AttSnapshot.subjects :
            LET rec == DecidingRecord(c) IN
            (FieldOr0(rec.counts.LTpercantage) # <<0, 1>>
                 /\ WithoutLectureList(AttSnapshot.subjects[c]))
                => AttSnapshot.subjects[c].percentage = FieldOr0(rec.counts.LTpercantage)

\* a subject reported with its LTP percentage, 80, while its counts give 70
\* and its lecture percentage is 75
C21_Witness ==
    /\ att_ret.kind = "value"
    /\ \E c \in DOMAIN AttSnapshot.subjects :
        /\ DecidingRecord(c).counts.LTpercantage = {<<80, 1>>}
        /\ DecidingRecord(c).counts.Lpercentage = {<<75, 1>>}
        /\ RecordPresentCount(DecidingRecord(c)) * 100
               = 70 * RecordClassCount(DecidingRecord(c))
        /\ WithoutLectureList(AttSnapshot.subjects[c])
        /\ AttSnapshot.subjects[c].percentage = <<80, 1>>

\* the percentage the precedence chain LTP, practical, lecture, tutorial,
\* counts selects for a record
ChainPercentage(rec) ==
    CASE FieldOr0(rec.counts.LTpercantage)[1] > 0 -> FieldOr0(rec.counts.LTpercantage)
      [] FieldOr0(rec.counts.Ppercentage)[1] > 0 -> FieldOr0(rec.counts.Ppercentage)
      [] FieldOr0(rec.counts.Lpercentage)[1] > 0 -> FieldOr0(rec.counts.Lpercentage)
      [] FieldOr0(rec.counts.Tpercentage)[1] > 0 -> FieldOr0(rec.counts.Tpercentage)
      [] OTHER -> Frac(RecordPresentCount(rec) * 100, RecordClassCount(rec))

\* C22: the basic percentage of every subject is selected by the chain
\* combined LTP percentage if > 0, else practical percentage if > 0, else
\* lecture percentage if > 0, else tutorial percentage if > 0, else
\* present / total * 100 from the summed counts
C22_PercentageFollowsFullChain ==
    att_ret.kind = "value" =>
        \A c \in DOMAIN basic_subjects :
            basic_subjects[c].percentage = ChainPercentage(DecidingRecord(c))

(***************************************************************************)
(* More properties of periodic_check.                                      *)
(***************************************************************************)
\* C23: when cycle after cycle fails, be it at the login test or because
\* check_for_changes raises after the login test passed, a failure
\* notification is sent by the third failed cycle in a row: three failed
\* cycles in a row never pass without one
C23_NotifiedByThirdFailedCycle ==
    failed_cycles < 3

(***************************************************************************)
(* Properties of the marks command and of the marks snapshots.             *)
(***************************************************************************)
\* C24: once select_marks_semester(s) has completed without error for a
\* label s of the fetched list, get_current_marks() returns the marks
\* snapshot of s and not None, whatever fetch_marks calls of the polling
\* thread come in between and whether the semester came from the cache or
\* from upstream
C24_CurrentMarksAfterSelect ==
    sel_pc = "got" =>
        /\ cmd_marks.kind = "value"
        /\ cmd_marks.value[1].semester = Value(selected_marks_sem)

\* C25: fetch_marks_for_semester never returns None, also when the cache
\* entry of the semester expires between the validity test and the read
C25_SemesterFetchNeverNone ==
    \A t \in Threads :
        (th[t].op = "fetch_marks_for_semester" /\ th[t].pc = "idle")
            => th[t].ret.kind # "value_none"

\* the keys fetch_marks gives its snapshot (lines 310-316)
LatestKeys == {<<"subjects">>, <<"sgpa">>, <<"cgpa">>, <<"gpa">>, <<"last_updated">>}

\* C26: the snapshot cached under 'latest_marks' is the one fetch_marks
\* stored, whatever fetch_marks_semesters and fetch_marks_for_semester calls
\* follow, and a fetch_marks answered from the cache returns those keys and
\* values with no per-semester entry
C26_LatestSnapshotIsNotModified ==
    /\ K_latest \in DOMAIN marks_cache
           => marks_cache[K_latest] = cache_stored[K_latest]
    /\ \A t \in Threads :
           (th[t].op = "fetch_marks" /\ th[t].pc = "idle" /\ th[t].hit
                /\ th[t].ret.kind = "value")
               => /\ DOMAIN th[t].ret.value[1] = LatestKeys
                  /\ th[t].ret.value[1] = cache_stored[K_latest]

\* the subject-name lines of a text that are immediately followed by a
\* parsable marks line
SubjectsWithMarks(lines) ==
    { Strip(lines[i]) : i \in { j \in 1..(Len(lines) - 1) :
                                  /\ IsSubjectLine(Strip(lines[j]))
                                  /\ ParseMarksLine(Strip(lines[j + 1])) # None } }

\* C27: in _extract_marks_from_pdf the scan resumes at the first line that
\* was not consumed, so every subject-name line immediately followed by a
\* parsable marks line yields an entry of the result
C27_EverySubjectWithMarksYieldsAnEntry ==
    \A t \in Threads :
        th[t].pdf.kind = "text"
            => SubjectsWithMarks(th[t].pdf.lines) \subseteq DOMAIN th[t].subjects

\* C28: for every semester object of the portal the display name is the
\* same string at each place that derives it: fetch_semesters,
\* fetch_marks_semesters, download_marks and fetch_marks_for_semester
C28_DisplayNameIsTheSameEverywhere ==
    \A i \in 1..Len(portal_semesters) :
        LET sem == portal_semesters[i] IN
        /\ SemestersDisplayName(sem) = ListDisplayName(sem)
        /\ DownloadDisplayName(sem) = ListDisplayName(sem)
        /\ ResolveDisplayName(sem) = ListDisplayName(sem)

\* C29: when two consecutive successful calls of check_for_changes observe
\* the same portal data (the second call gets the attendance and the marks
\* the first one stored), the second report has no new notice and neither
\* change flag set
C29_UnchangedPortalReportsNothing ==
    (/\ Reported
     /\ cycles = 2
     /\ cc_prev.attendance = {Report.current_data.attendance}
     /\ cc_prev.marks = {Report.current_data.marks})
        => /\ Report.new_notices = <<>>
           /\ ~Report.attendance_changed
           /\ ~Report.marks_changed

(***************************************************************************)
(* Properties of the second loop of fetch_attendance.                      *)
(***************************************************************************)
\* the detailed call of the step answered 'Success' with a list of
\* per-lecture records
SuccessWithRecords(r) ==
    /\ DetailSuccess(r)
    /\ r.response = "dict"
    /\ \A i \in 1..Len(r.list) : r.list[i] # "notadict"

\* C30: when the detailed call for a subject returns a 'Success' response
\* with a non-empty per-lecture list, the subject's total is the length of
\* the list, its attended the number of entries whose 'present' is literally
\* "Present", its percentage attended / total * 100, and these figures are
\* added to the overall totals; every other subject's entry is unchanged;
\* an empty list leaves the subject's basic figures in place
C30_LectureListSupersedesBasicFigures ==
    [][(/\ att_pc = "loop"
        /\ att_idx <= Len(basic_order)
        /\ basic_subjects[basic_order[att_idx]].subject_id # ""
        /\ att_idx' = att_idx + 1
        /\ SuccessWithRecords(att_detail'))
           => LET name == basic_order[att_idx]
                  l == att_detail'.list
                  present == Cardinality({ i \in 1..Len(l) : l[i] = "Present" })
                  entry == enhanced_subjects'[name]
                  figures == IF l # <<>>
                             THEN [total |-> Len(l), attended |-> present,
                                   percentage |-> Percent(present, Len(l))]
                             ELSE [total |-> basic_subjects[name].total,
                                   attended |-> basic_subjects[name].attended,
                                   percentage |-> basic_subjects[name].percentage] IN
              /\ DOMAIN enhanced_subjects' = DOMAIN enhanced_subjects \cup {name}
              /\ entry.total = figures.total
              /\ entry.attended = figures.attended
              /\ entry.percentage = figures.percentage
              /\ total_classes' = total_classes + figures.total
              /\ total_attended' = total_attended + figures.attended
              /\ \A other \in DOMAIN enhanced_subjects \ {name} :
                     enhanced_subjects'[other] = enhanced_subjects[other]]_vars

\* a snapshot of two subjects: the first one detailed by a list with an
\* entry that is not "Present", the second one's list empty
C30_Witness ==
    /\ att_ret.kind = "value"
    /\ Len(basic_order) = 2
    /\ "detailed_data" \in DOMAIN enhanced_subjects[basic_order[1]]
    /\ enhanced_subjects[basic_order[1]].attended < enhanced_subjects[basic_order[1]].total
    /\ SuccessWithRecords(att_detail)
    /\ att_detail.list = <<>>
    /\ enhanced_subjects[basic_order[2]] = basic_subjects[basic_order[2]]

\* C31: in every snapshot returned by fetch_attendance each subject has
\* 0 <= attended <= total and 0 <= percentage <= 100, and the overall
\* figures have 0 <= attended_classes <= total_classes, for every upstream
\* response
C31_FiguresAreInRange ==
    att_ret.kind = "value" =>
        LET snapshot == att_ret.value[1] IN
        /\ 0 <= snapshot.attended_classes
        /\ snapshot.attended_classes <= snapshot.total_classes
        /\ \A name \in DOMAIN snapshot.subjects :
            LET entry == snapshot.subjects[name] IN
            /\ 0 <= entry.attended
            /\ entry.attended <= entry.total
            /\ 0 <= entry.percentage[1]
            /\ entry.percentage[1] <= 100 * entry.percentage[2]

(***************************************************************************)
(* Properties of the text functions.                                       *)
(***************************************************************************)
\* the last call of _parse_marks_line gave a result
Parsed == pm_ret.kind = "value"

\* C32: _parse_marks_line applies its rules in order: (a) a line starting
\* with 'A ' whose second token contains '/' gives t1 = 'A' and no grade;
\* (b) a line starting with B, C, D or F followed by an obtained/total token
\* gives the obtained number and that letter as grade; (c) otherwise a line
\* with a '/'-token gives the numerator of the first such token and no
\* grade; (d) a line with no '/' gives no result; the recorded grade is
\* always one of the letters B, C, D, F or empty
C32_MarksLineRulesInOrder ==
    pm_ret.kind # "none" =>
        LET line == Strip(pm_line)
            parts == Split(line)
            second_has_slash == Len(parts) >= 2 /\ Contains(<<"/">>, parts[2])
            rule_a == StartsWith(line, <<"A", " ">>) /\ second_has_slash
            rule_b == /\ ~rule_a
                      /\ line # <<>>
                      /\ line[1] \in {"B", "C", "D", "F"}
                      /\ second_has_slash
            rule_c == ~rule_a /\ ~rule_b /\ Contains(<<"/">>, line) IN
        /\ rule_a => (Parsed /\ pm_ret.value[1].t1 = Absent
                             /\ pm_ret.value[1].grade = <<>>)
        /\ (rule_b /\ Parsed) =>
               (/\ pm_ret.value[1].grade = <<line[1]>>
                /\ {pm_ret.value[1].t1} = ObtainedMarks(parts[2]))
        /\ (rule_c /\ Parsed) => pm_ret.value[1].grade = <<>>
        /\ ~Contains(<<"/">>, line) => pm_ret.kind = "value_none"
        /\ Parsed => pm_ret.value[1].grade
                         \in {<<>>, <<"B">>, <<"C">>, <<"D">>, <<"F">>}

\* the type word of a semester whose type is known
TypeWord(sem) ==
    IF IsOdd(sem) THEN T_Odd ELSE IF IsEven(sem) THEN T_Even ELSE T_Summer

C34_DisplayNameComposition ==
    dn_sem # None =>
        LET sem == Value(dn_sem)
            upper_code == Upper(RegCodeOf(sem))
            upper_name == Upper(sem.semester_name)
            odd == Contains(T_ODD, upper_code) \/ Contains(T_ODD, upper_name)
            even == Contains(T_EVE, upper_code) \/ Contains(T_EVEN, upper_name)
                        \/ (RegCodeOf(sem) = <<>> /\ Contains(T_EVE, upper_name))
            summer == Contains(T_SUMMER, upper_code) \/ Contains(T_SUMMER, upper_name)
            type == IF odd THEN T_Odd ELSE IF even THEN T_Even ELSE T_Summer
            name == IF odd \/ even \/ summer
                    THEN (IF YearOf(sem) # None
                          THEN type \o <<" ">> \o Value(YearOf(sem))
                          ELSE type \o T_Semester)
                    ELSE sem.semester_name IN
        /\ dn_list = {name}
        /\ dn_resolve # None => dn_resolve = {name}


\* C35: a fetch whose ensure_logged_in returned True obtains its webportal
\* handle: it never ends with 'No webportal session available' (APIError)
\* or with a missing session manager (AttributeError), whatever the other
\* thread does with login() or cleanup() meanwhile.
C35_ValidatedSessionStaysUsable ==
    \A t \in Threads : lg[t].ret \notin {"APIError", "AttributeError"}

\* the same with cleanup left aside: two logins alone
C35_LoginAloneBreaksIt ==
    cl_pc = "idle" => \A t \in Threads : lg[t].ret # "APIError"


IntegerTexts ==
    { << <<"4">>, 4 >>, << <<"5">>, 5 >>, << <<"6">>, 6 >>, << <<"3", "0">>, 30 >>,
      << <<"1", "4", "4", "0">>, 1440 >>, << <<"1", "4", "4", "1">>, 1441 >>,
      << <<"0">>, 0 >>, << <<"-", "5">>, 0 - 5 >>, << <<"-", "3", "0">>, 0 - 30 >>,
      << <<"+", "7">>, 7 >>, << <<"0", "0", "8">>, 8 >>, << <<"1", "_", "0">>, 10 >>,
      << <<"1", "2">>, 12 >> }

\* C37: after an /interval command the interval is the command's value when
\* that value is an integer from 5 to 1440, and is what it was before the
\* command when the value is below 5, above 1440 or not an integer (or
\* missing); so the interval is only ever changed to an integer in
\* [5, 1440] minutes.
C37_IntervalOnlySetInRange ==
    /\ iv_args # None =>
        LET args == Value(iv_args)
            given == IF Len(args) = 0 THEN {}
                     ELSE { p[2] : p \in { q \in IntegerTexts : q[1] = args[1] } } IN
        IF \E m \in given : 5 <= m /\ m <= 1440
        THEN \A m \in given : env_interval = m * 60
        ELSE env_interval = iv_before
    /\ \/ env_interval = StartInterval
       \/ \E m \in 5..1440 : env_interval = m * 60

\* an accepted command changed the interval and a refused one followed
C37_Witness ==
    /\ iv_args = Some(<< <<"1", "4", "4", "1">> >>)
    /\ iv_before = 30 * 60
    /\ env_interval = 30 * 60


\* C38: while periodic_check waits after a successful cycle, a slice is
\* never longer than 30 seconds; once the interval of the environment
\* differs from the one the cycle read, the loop sleeps no further slice
\* and its next step leaves the wait; the cycle that follows reads the
\* interval of the environment for its own wait; and with the interval
\* unchanged and the flag up the wait is left only when the full interval
\* has passed.
C38_WaitFollowsTheInterval ==
    [][/\ (drv_pc = "wait" /\ now' # now) =>
              /\ now' - now <= 30
              /\ env_interval = check_interval
       /\ (drv_pc = "wait" /\ drv_pc' # "wait") =>
              /\ drv_pc' = "top"
              /\ now' = now
              /\ (running /\ env_interval = check_interval) =>
                     now - sleep_start_time >= check_interval
       /\ (drv_pc = "top" /\ drv_pc' = "login") => check_interval' = env_interval
      ]_vars

\* the first wait was left at its first slice boundary for the new
\* interval, and the second cycle has waited the whole new interval
C38_Witness ==
    /\ drv_cycles = 2
    /\ drv_pc = "top"
    /\ running
    /\ check_interval = CommandInterval
    /\ env_interval = CommandInterval
    /\ sleep_start_time > 0
    /\ sleep_start_time < StartInterval
    /\ now - sleep_start_time >= CommandInterval

====
